---- MODULE Spec2Model ----
(***************************************************************************)
(* A model of the ChampSim cache module (src/src/cache.cc): one CACHE with *)
(* its upper-level channels, its lower-level channel, the MSHR, the        *)
(* inflight tag checks and writes, the internal prefetch queue and the     *)
(* statistics.  One step of the model is one call of an entry point:       *)
(* CACHE::operate (a whole tick), CACHE::prefetch_line, an upper level     *)
(* issuing a request, or the lower level answering one.                    *)
(***************************************************************************)
EXTENDS Integers, Sequences, FiniteSets, TLC

(***************************************************************************)
(* Bounds of the model.                                                    *)
(***************************************************************************)
MaxCycle == 6
MaxReq == 2
UINT64_MAX == 999999

VARIABLES
  cfg,                \* the construction parameters and the workload (fixed)
  current_cycle,      \* champsim::operable::current_cycle
  warmup,             \* champsim::operable::warmup
  block,              \* CACHE::block, as [set -> [way -> BLOCK]]
  MSHR,               \* CACHE::MSHR
  inflight_writes,    \* CACHE::inflight_writes
  inflight_tag_check, \* CACHE::inflight_tag_check
  translation_stash,  \* CACHE::translation_stash
  internal_PQ,        \* CACHE::internal_PQ
  upper_levels,       \* CACHE::upper_levels, each a channel
  lower_level,        \* CACHE::lower_level, a channel
  lower_translate,    \* CACHE::lower_translate, a channel
  sim_stats,          \* CACHE::sim_stats
  packets,            \* the requesters' records of what they issued
  arrival,            \* blocks whose responses were drained, oldest first
  nreq,               \* the number of requests issued so far
  tick_log,           \* what the calls inside the last operate() did
  dram,               \* the MEMORY_CONTROLLER, its DRAM_CHANNEL and its upper level
  controller_cycle,   \* the MEMORY_CONTROLLER's champsim::operable::current_cycle
  addr,               \* a champsim::address_slice
  cpu,                \* an O3_CPU's branch predictors and BTBs
  ptw,                \* a PageTableWalker, its upper levels and its lower level
  ptw_cycle           \* the PageTableWalker's champsim::operable clock, in cycles

cache_vars ==
  <<cfg, current_cycle, warmup, block, MSHR, inflight_writes,
    inflight_tag_check, translation_stash, internal_PQ, upper_levels,
    lower_level, lower_translate, sim_stats, packets, arrival,
    nreq, tick_log>>

\* what the operations of one component leave alone
beside_cache == <<dram, controller_cycle, addr, cpu, ptw, ptw_cycle>>
beside_dram == <<cache_vars, addr, cpu, ptw, ptw_cycle>>
beside_addr == <<cache_vars, dram, controller_cycle, cpu, ptw, ptw_cycle>>
beside_cpu == <<cache_vars, dram, controller_cycle, addr, ptw, ptw_cycle>>
beside_ptw == <<cache_vars, dram, controller_cycle, addr, cpu>>

vars == <<cache_vars, dram, controller_cycle, addr, cpu, ptw, ptw_cycle>>

(***************************************************************************)
(* The construction parameters, read from cfg.                             *)
(***************************************************************************)
NUM_SET == cfg.NUM_SET
NUM_WAY == cfg.NUM_WAY
MSHR_SIZE == cfg.MSHR_SIZE
PQ_SIZE == cfg.PQ_SIZE
HIT_LATENCY == cfg.HIT_LATENCY
FILL_LATENCY == cfg.FILL_LATENCY
MAX_TAG == cfg.MAX_TAG
MAX_FILL == cfg.MAX_FILL
OFFSET_BITS == cfg.OFFSET_BITS
prefetch_as_load == cfg.prefetch_as_load
match_offset_bits == cfg.match_offset_bits
virtual_prefetch == cfg.virtual_prefetch

Uppers == {1, 2}
Addresses == 0 .. 5
Sets == 0 .. (NUM_SET - 1)
Ways == 0 .. (NUM_WAY - 1)

(***************************************************************************)
(* Sequence helpers.                                                       *)
(***************************************************************************)
Min(a, b) == IF a < b THEN a ELSE b
Max(a, b) == IF a < b THEN b ELSE a
Pow2(n) == IF n = 0 THEN 1 ELSE IF n = 1 THEN 2 ELSE IF n = 2 THEN 4 ELSE 8
Drop(q, n) == SubSeq(q, n + 1, Len(q))
Take(q, n) == SubSeq(q, 1, n)

\* index of the first element of q satisfying P, or Len(q) + 1 (std::find_if)
FindIf(q, P(_)) ==
  IF \E i \in 1 .. Len(q) : P(q[i])
    THEN CHOOSE i \in 1 .. Len(q) : P(q[i]) /\ \A j \in 1 .. (i - 1) : ~P(q[j])
    ELSE Len(q) + 1

\* the length of the longest prefix of q, of at most sz elements, whose
\* elements all satisfy P (champsim::get_span_p from the queue's begin)
SpanP(q, sz, P(_)) ==
  LET lim == Min(Max(sz, 0), Len(q))
  IN  IF \E i \in 1 .. lim : ~P(q[i])
        THEN (CHOOSE i \in 1 .. lim : ~P(q[i]) /\ \A j \in 1 .. (i - 1) : P(q[j])) - 1
        ELSE lim

\* std::set_union of two sorted sequences
RECURSIVE set_union(_, _)
set_union(a, b) ==
  IF a = <<>> THEN b
  ELSE IF b = <<>> THEN a
  ELSE IF Head(b) < Head(a) THEN <<Head(b)>> \o set_union(a, Tail(b))
  ELSE IF Head(a) < Head(b) THEN <<Head(a)>> \o set_union(Tail(a), b)
  ELSE <<Head(a)>> \o set_union(Tail(a), Tail(b))

(***************************************************************************)
(* Addresses (inc/address.h): slices of an integer.                        *)
(***************************************************************************)
slice_upper(address, bits) == address \div Pow2(bits)
get_set_index(address) == slice_upper(address, OFFSET_BITS) % NUM_SET
BlockOf(address) == slice_upper(address, OFFSET_BITS)

(***************************************************************************)
(* Packets.  Fields no modelled decision reads (cpu, ip, instr_id, asid,   *)
(* pf_metadata) are left out.                                              *)
(***************************************************************************)
AccessTypes == {"LOAD", "RFO", "PREFETCH", "WRITE", "TRANSLATION"}
pref_activate_mask == {"LOAD", "PREFETCH"}

\* champsim::channel::request_type
Request(address, v_address, data, type, response_requested, is_translated, deps) ==
  [address |-> address, v_address |-> v_address, data |-> data, type |-> type,
   response_requested |-> response_requested, is_translated |-> is_translated,
   instr_depend_on_me |-> deps]

\* champsim::channel::response_type
Response(address, v_address, data, deps) ==
  [address |-> address, v_address |-> v_address, data |-> data,
   instr_depend_on_me |-> deps]

\* CACHE::tag_lookup_type::tag_lookup_type(req, local_pref, skip)
tag_lookup_type(req, local_pref, skip) ==
  [address |-> req.address, v_address |-> req.v_address, data |-> req.data,
   type |-> req.type, prefetch_from_this |-> local_pref, skip_fill |-> skip,
   is_translated |-> req.is_translated, translate_issued |-> FALSE,
   event_cycle |-> UINT64_MAX,
   instr_depend_on_me |-> req.instr_depend_on_me, to_return |-> <<>>]

\* CACHE::mshr_type::mshr_type(req, cycle)
mshr_type(req, cycle) ==
  [address |-> req.address, v_address |-> req.v_address, data |-> req.data,
   type |-> req.type, prefetch_from_this |-> req.prefetch_from_this,
   cycle_enqueued |-> cycle, event_cycle |-> UINT64_MAX,
   instr_depend_on_me |-> req.instr_depend_on_me, to_return |-> req.to_return]

\* CACHE::BLOCK, default-constructed
EmptyBlock ==
  [valid |-> FALSE, prefetch |-> FALSE, dirty |-> FALSE, address |-> 0,
   v_address |-> 0, data |-> 0]

MutFillBlockNoTag(mshr) ==
  [valid |-> TRUE, prefetch |-> mshr.prefetch_from_this,
   dirty |-> (mshr.type = "WRITE"), address |-> mshr.v_address,
   v_address |-> mshr.v_address, data |-> mshr.data]

\* CACHE::fill_block
fill_block(mshr) ==
  [valid |-> TRUE, prefetch |-> mshr.prefetch_from_this,
   dirty |-> (mshr.type = "WRITE"), address |-> mshr.address,
   v_address |-> mshr.v_address, data |-> mshr.data]

(***************************************************************************)
(* Channels (champsim::channel): bounded queues and a returned queue.      *)
(***************************************************************************)
EmptyChannel == [RQ |-> <<>>, WQ |-> <<>>, PQ |-> <<>>, returned |-> <<>>]

\* channel::add_rq, add_wq, add_pq: false when the queue is full
chan_add(ch, q, pkt, size) ==
  IF Len(ch[q]) >= size
    THEN [ok |-> FALSE, ch |-> ch]
    ELSE [ok |-> TRUE, ch |-> [ch EXCEPT ![q] = Append(@, pkt)]]

\* whether two queue entries collide: the same block, both translated or not
collides(x, p, shamt) ==
  /\ slice_upper(x.address, shamt) = slice_upper(p.address, shamt)
  /\ x.is_translated = p.is_translated

\* merge the entries of rest that collide with an earlier entry into it
RECURSIVE collide_merge(_, _, _)
collide_merge(done, rest, shamt) ==
  IF rest = <<>> THEN done
  ELSE LET same(x) == collides(x, Head(rest), shamt)
           i == FindIf(done, same)
       IN  IF i <= Len(done)
             THEN collide_merge(
                    [done EXCEPT ![i] =
                       [@ EXCEPT !.instr_depend_on_me =
                                    set_union(@, Head(rest).instr_depend_on_me),
                                 !.response_requested = @ \/ Head(rest).response_requested]],
                    Tail(rest), shamt)
             ELSE collide_merge(Append(done, Head(rest)), Tail(rest), shamt)

\* the responses to the reads of q that an entry of wq answers
RECURSIVE wq_answers(_, _, _)
wq_answers(wq, q, shamt) ==
  IF q = <<>> THEN <<>>
  ELSE LET same(x) == collides(x, Head(q), shamt)
           i == FindIf(wq, same)
       IN  (IF i <= Len(wq) /\ Head(q).response_requested
              THEN <<Response(Head(q).address, Head(q).v_address, wq[i].data,
                              Head(q).instr_depend_on_me)>>
              ELSE <<>>) \o wq_answers(wq, Tail(q), shamt)

\* check_collision once the WQ has been merged
check_collision_reads(ch, wq, write_shamt) ==
  LET kept(r) == \A i \in 1 .. Len(wq) : ~collides(wq[i], r, write_shamt)
  IN  [RQ |-> collide_merge(<<>>, SelectSeq(ch.RQ, kept), OFFSET_BITS),
       WQ |-> wq,
       PQ |-> collide_merge(<<>>, ch.PQ, OFFSET_BITS),
       returned |-> ch.returned \o wq_answers(wq, ch.RQ, write_shamt)]

\* channel::check_collision: WQ entries merge, RQ entries are answered from
\* a WQ entry of the same block or merge, PQ entries merge
check_collision(ch) ==
  IF ch.RQ = <<>> /\ ch.WQ = <<>> /\ ch.PQ = <<>> THEN ch
  ELSE check_collision_reads(
         ch, collide_merge(<<>>, ch.WQ, IF match_offset_bits THEN 0 ELSE OFFSET_BITS),
         IF match_offset_bits THEN 0 ELSE OFFSET_BITS)

(***************************************************************************)
(* The handlers of CACHE.  Each takes the cache's state as a record s      *)
(* (block, MSHR, inflight_writes, inflight_tag_check, translation_stash,   *)
(* internal_PQ, upper_levels, lower_level, lower_translate, sim_stats and  *)
(* log, the record of what the calls of this tick did) and returns the     *)
(* state it leaves, with its return value ok where it has one.  now is     *)
(* current_cycle and wu is warmup during the tick.                         *)
(***************************************************************************)
Bump(stats, field) == [stats EXCEPT ![field] = @ + 1]
BumpType(stats, field, type) == [stats EXCEPT ![field][type] = @ + 1]

MutPushFirstOnly(uls, to_return, response) ==
  IF to_return = <<>> THEN uls
  ELSE [uls EXCEPT ![Head(to_return)].returned = Append(@, response)]

\* for (auto* ret : to_return) ret->push_back(response);
RECURSIVE push_responses(_, _, _)
push_responses(uls, to_return, response) ==
  IF to_return = <<>> THEN uls
  ELSE push_responses([uls EXCEPT ![Head(to_return)].returned = Append(@, response)],
                      Tail(to_return), response)

\* the way handle_fill picks: the first invalid way, else the replacement
\* policy's answer victim (impl_find_victim), NUM_WAY meaning a bypass
fill_way(set_ways, victim) ==
  IF \E w \in Ways : ~set_ways[w].valid
    THEN CHOOSE w \in Ways : ~set_ways[w].valid /\ \A v \in 0 .. (w - 1) : set_ways[v].valid
    ELSE victim

\* the writeback packet handle_fill builds for a dirty victim
writeback_packet(victim_block) ==
  Request(victim_block.address, 0, victim_block.data, "WRITE", FALSE, FALSE, <<>>)

MutWritebackIgnored(success) == TRUE

\* whether handle_fill goes on after lower_level->add_wq returned success
writeback_done(success) == success

MutFillStatsPrefetchBit(stats, is_way, old, fill_mshr) ==
  LET stats1 == IF is_way /\ old.valid /\ old.prefetch
                  THEN Bump(stats, "pf_useless") ELSE stats
  IN  IF is_way /\ old.valid /\ old.prefetch THEN Bump(stats1, "pf_fill") ELSE stats1

\* the statistics handle_fill updates
fill_stats(stats, is_way, old, fill_mshr) ==
  LET stats1 == IF is_way /\ old.valid /\ old.prefetch
                  THEN Bump(stats, "pf_useless") ELSE stats
  IN  IF is_way /\ fill_mshr.type = "PREFETCH" THEN Bump(stats1, "pf_fill") ELSE stats1

\* a call of a hook of the replacement policy or of the prefetcher, for the
\* packet of an address
hook_call(name, address) == [hook |-> name, address |-> address]

\* impl_find_victim is called when the set has no invalid way
find_victim_hook(s, fill_mshr, set) ==
  IF \E w \in Ways : ~s.block[set][w].valid THEN s
  ELSE [s EXCEPT !.log.hooks = Append(@, hook_call("find_victim", fill_mshr.address))]

MutAbortPushesResponses(s, fill_mshr, set, way) ==
  LET is_way == way # NUM_WAY
      old == IF is_way THEN s.block[set][way] ELSE EmptyBlock
      must_wb == is_way /\ old.valid /\ old.dirty
      wb == chan_add(s.lower_level, "WQ", writeback_packet(old), cfg.LOWER_SIZE.WQ)
  IN  IF must_wb /\ ~writeback_done(wb.ok)
        THEN [ok |-> FALSE,
              s |-> [s EXCEPT
                !.log.fill_refused =
                   Append(@, [entry |-> fill_mshr, set |-> set, way |-> way,
                              victim |-> old]),
                !.upper_levels =
                   push_responses(@, fill_mshr.to_return,
                                  Response(fill_mshr.address, fill_mshr.v_address,
                                           fill_mshr.data, fill_mshr.instr_depend_on_me))]]
        ELSE [ok |-> TRUE,
              s |-> [s EXCEPT
                !.block = IF is_way THEN [@ EXCEPT ![set][way] = fill_block(fill_mshr)]
                          ELSE @,
                !.lower_level = IF must_wb THEN wb.ch ELSE @,
                !.sim_stats = fill_stats(@, is_way, old, fill_mshr),
                !.upper_levels =
                   push_responses(@, fill_mshr.to_return,
                                  Response(fill_mshr.address, fill_mshr.v_address,
                                           fill_mshr.data, fill_mshr.instr_depend_on_me)),
                !.log.fills = Append(@, [entry |-> fill_mshr, set |-> set, way |-> way,
                                         victim |-> old, wrote |-> is_way]),
                !.log.hooks =
                   @ \o <<hook_call("prefetcher_cache_fill", fill_mshr.address),
                          hook_call("update_replacement_state", fill_mshr.address)>>]]

\* handle_fill from the point where the way is known
handle_fill_way(s, fill_mshr, set, way) ==
  LET is_way == way # NUM_WAY
      old == IF is_way THEN s.block[set][way] ELSE EmptyBlock
      must_wb == is_way /\ old.valid /\ old.dirty
      wb == chan_add(s.lower_level, "WQ", writeback_packet(old), cfg.LOWER_SIZE.WQ)
  IN  IF must_wb /\ ~writeback_done(wb.ok)
        THEN [ok |-> FALSE,
              s |-> [s EXCEPT
                !.log.fill_refused =
                   Append(@, [entry |-> fill_mshr, set |-> set, way |-> way,
                              victim |-> old])]]
        ELSE [ok |-> TRUE,
              s |-> [s EXCEPT
                !.block = IF is_way THEN [@ EXCEPT ![set][way] = fill_block(fill_mshr)]
                          ELSE @,
                !.lower_level = IF must_wb THEN wb.ch ELSE @,
                !.sim_stats = fill_stats(@, is_way, old, fill_mshr),
                !.upper_levels =
                   push_responses(@, fill_mshr.to_return,
                                  Response(fill_mshr.address, fill_mshr.v_address,
                                           fill_mshr.data, fill_mshr.instr_depend_on_me)),
                !.log.fills = Append(@, [entry |-> fill_mshr, set |-> set, way |-> way,
                                         victim |-> old, wrote |-> is_way]),
                !.log.hooks =
                   @ \o <<hook_call("prefetcher_cache_fill", fill_mshr.address),
                          hook_call("update_replacement_state", fill_mshr.address)>>]]

\* CACHE::handle_fill
handle_fill(s, fill_mshr, victim, now) ==
  handle_fill_way(find_victim_hook(s, fill_mshr, get_set_index(fill_mshr.address)),
                  fill_mshr, get_set_index(fill_mshr.address),
                  fill_way(s.block[get_set_index(fill_mshr.address)], victim))

\* CACHE::should_activate_prefetcher
should_activate_prefetcher(pkt) ==
  ~pkt.prefetch_from_this /\ pkt.type \in pref_activate_mask

\* the way try_hit finds for an address, NUM_WAY when there is none
hit_way(set_ways, address) ==
  LET match(w) == set_ways[w].valid /\ BlockOf(set_ways[w].address) = BlockOf(address)
  IN  IF \E w \in Ways : match(w)
        THEN CHOOSE w \in Ways : match(w) /\ \A v \in 0 .. (w - 1) : ~match(v)
        ELSE NUM_WAY

MutUsefulAnyPrefetchHit(blk, handle_pkt) == blk.prefetch

MutUsefulByType(blk, handle_pkt) == blk.prefetch /\ handle_pkt.type # "PREFETCH"

\* try_hit's useful_prefetch, for a hit on blk
useful_prefetch(blk, handle_pkt) == blk.prefetch /\ ~handle_pkt.prefetch_from_this

MutHitKeepsPrefetchBit(blk, handle_pkt) ==
  [blk EXCEPT !.dirty = (handle_pkt.type = "WRITE")]

\* what a hit leaves of the block
hit_block(blk, handle_pkt) ==
  [blk EXCEPT !.dirty = (handle_pkt.type = "WRITE"),
              !.prefetch = IF useful_prefetch(blk, handle_pkt) THEN FALSE ELSE @]

\* the hooks try_hit calls: impl_prefetcher_cache_operate when the prefetcher
\* is to be activated, impl_update_replacement_state on a hit
hit_hooks(handle_pkt, hit) ==
  (IF should_activate_prefetcher(handle_pkt)
     THEN <<hook_call("prefetcher_cache_operate", handle_pkt.address)>> ELSE <<>>)
    \o (IF hit THEN <<hook_call("update_replacement_state", handle_pkt.address)>>
         ELSE <<>>)

\* try_hit from the point where the way is known
try_hit_way(s, handle_pkt, set, way) ==
  IF way # NUM_WAY
    THEN [ok |-> TRUE,
          s |-> [s EXCEPT
            !.sim_stats =
               IF useful_prefetch(s.block[set][way], handle_pkt)
                 THEN Bump(BumpType(@, "hits", handle_pkt.type), "pf_useful")
                 ELSE BumpType(@, "hits", handle_pkt.type),
            !.block[set][way] = hit_block(@, handle_pkt),
            !.upper_levels =
               push_responses(@, handle_pkt.to_return,
                              Response(handle_pkt.address, handle_pkt.v_address,
                                       s.block[set][way].data,
                                       handle_pkt.instr_depend_on_me)),
            !.log.tags = Append(@, [pkt |-> handle_pkt, hit |-> TRUE,
                                    before |-> s.block[set][way],
                                    activated |-> should_activate_prefetcher(handle_pkt)]),
            !.log.hooks = @ \o hit_hooks(handle_pkt, TRUE)]]
    ELSE [ok |-> FALSE,
          s |-> [s EXCEPT
            !.log.tags = Append(@, [pkt |-> handle_pkt, hit |-> FALSE,
                                    before |-> EmptyBlock,
                                    activated |-> should_activate_prefetcher(handle_pkt)]),
            !.log.hooks = @ \o hit_hooks(handle_pkt, FALSE)]]

\* CACHE::try_hit
try_hit(s, handle_pkt) ==
  try_hit_way(s, handle_pkt, get_set_index(handle_pkt.address),
              hit_way(s.block[get_set_index(handle_pkt.address)], handle_pkt.address))

MutMatchFullAddress(x, address) == x.address = address

\* the match of an MSHR entry against an address, in handle_miss and finish_packet
mshr_match(x, address) == BlockOf(x.address) = BlockOf(address)

MutMshrNeverFull(mshr) == FALSE

\* handle_miss's mshr_full
MutMshrFullOver(mshr) == Len(mshr) > MSHR_SIZE

mshr_full(mshr) == Len(mshr) = MSHR_SIZE

\* the request handle_miss forwards to the lower level
fwd_pkt(handle_pkt) ==
  Request(handle_pkt.address, handle_pkt.v_address, handle_pkt.data,
          IF handle_pkt.type = "WRITE" THEN "RFO" ELSE handle_pkt.type,
          ~handle_pkt.prefetch_from_this \/ ~handle_pkt.skip_fill,
          FALSE, handle_pkt.instr_depend_on_me)

MutMergeDropsToReturn(e, handle_pkt, now) ==
  IF e.type = "PREFETCH" /\ handle_pkt.type # "PREFETCH"
    THEN [mshr_type(handle_pkt, now) EXCEPT !.event_cycle = e.event_cycle]
    ELSE [e EXCEPT !.instr_depend_on_me = set_union(@, handle_pkt.instr_depend_on_me)]

\* what handle_miss leaves of the MSHR entry e that handle_pkt merges into
merged_entry(e, handle_pkt, now) ==
  IF e.type = "PREFETCH" /\ handle_pkt.type # "PREFETCH"
    THEN [mshr_type(handle_pkt, now) EXCEPT
            !.event_cycle = e.event_cycle,
            !.to_return = set_union(e.to_return, handle_pkt.to_return)]
    ELSE [e EXCEPT
            !.instr_depend_on_me = set_union(@, handle_pkt.instr_depend_on_me),
            !.to_return = set_union(@, handle_pkt.to_return)]

\* handle_miss when the MSHR entry i is for the block
handle_miss_inflight(s, handle_pkt, i, now) ==
  [ok |-> TRUE,
   s |-> [s EXCEPT
     !.MSHR[i] = merged_entry(@, handle_pkt, now),
     !.sim_stats =
        IF /\ s.MSHR[i].type = "PREFETCH" /\ handle_pkt.type # "PREFETCH"
           /\ s.MSHR[i].prefetch_from_this
          THEN Bump(BumpType(@, "misses", handle_pkt.type), "pf_useful")
          ELSE BumpType(@, "misses", handle_pkt.type),
     !.log.merges = Append(@, [pkt |-> handle_pkt, entry |-> s.MSHR[i]])]]

MutNoMshrForPrefetch(mshr, handle_pkt, now) ==
  IF fwd_pkt(handle_pkt).response_requested /\ handle_pkt.type # "PREFETCH"
    THEN Append(mshr, mshr_type(handle_pkt, now)) ELSE mshr

\* if (fwd_pkt.response_requested) MSHR.emplace_back(handle_pkt, current_cycle);
allocate_mshr(mshr, handle_pkt, now) ==
  IF fwd_pkt(handle_pkt).response_requested
    THEN Append(mshr, mshr_type(handle_pkt, now)) ELSE mshr

MutRefusedMissCounted(s, handle_pkt, sent, now) ==
  IF ~sent.ok
    THEN [ok |-> FALSE,
          s |-> [s EXCEPT !.log.refused = Append(@, handle_pkt),
                          !.sim_stats = BumpType(@, "misses", handle_pkt.type)]]
    ELSE [ok |-> TRUE,
          s |-> [s EXCEPT
            !.lower_level = sent.ch,
            !.MSHR = allocate_mshr(@, handle_pkt, now),
            !.sim_stats = BumpType(@, "misses", handle_pkt.type),
            !.log.forwards = Append(@, fwd_pkt(handle_pkt))]]

\* handle_miss when no MSHR entry is for the block and the MSHR has room,
\* sent being what lower_level->add_rq or add_pq answered
handle_miss_forward(s, handle_pkt, sent, now) ==
  IF ~sent.ok
    THEN [ok |-> FALSE, s |-> [s EXCEPT !.log.refused = Append(@, handle_pkt)]]
    ELSE [ok |-> TRUE,
          s |-> [s EXCEPT
            !.lower_level = sent.ch,
            !.MSHR = allocate_mshr(@, handle_pkt, now),
            !.sim_stats = BumpType(@, "misses", handle_pkt.type),
            !.log.forwards = Append(@, fwd_pkt(handle_pkt))]]

MutForwardAlwaysRq(handle_pkt) == "RQ"

\* the lower level's queue a miss is forwarded to
lower_queue(handle_pkt) ==
  IF prefetch_as_load \/ handle_pkt.type # "PREFETCH" THEN "RQ" ELSE "PQ"

\* handle_miss from the point where the MSHR has been searched
handle_miss_at(s, handle_pkt, i, now) ==
  IF i <= Len(s.MSHR) THEN handle_miss_inflight(s, handle_pkt, i, now)
  ELSE IF mshr_full(s.MSHR)
    THEN [ok |-> FALSE, s |-> [s EXCEPT !.log.refused = Append(@, handle_pkt)]]
  ELSE handle_miss_forward(
         s, handle_pkt,
         chan_add(s.lower_level, lower_queue(handle_pkt), fwd_pkt(handle_pkt),
                  cfg.LOWER_SIZE[lower_queue(handle_pkt)]),
         now)

\* CACHE::handle_miss
handle_miss(s, handle_pkt, now) ==
  LET match(x) == mshr_match(x, handle_pkt.address)
  IN  handle_miss_at(s, handle_pkt, FindIf(s.MSHR, match), now)

\* CACHE::handle_write
handle_write(s, handle_pkt, now, wu) ==
  [ok |-> TRUE,
   s |-> [s EXCEPT
     !.inflight_writes =
        Append(@, [mshr_type(handle_pkt, now) EXCEPT
                     !.event_cycle = now + (IF wu THEN 0 ELSE FILL_LATENCY)]),
     !.sim_stats = BumpType(@, "misses", handle_pkt.type)]]

MutFinishNoSwap(mshr, i, j) == mshr

\* std::iter_swap(mshr_entry, first_unreturned)
iter_swap(mshr, i, j) ==
  IF j <= Len(mshr) THEN [mshr EXCEPT ![i] = mshr[j], ![j] = mshr[i]] ELSE mshr

\* finish_packet for the matching entry i, j being the first unreturned one
finish_packet_at(s, packet, i, j, now, wu) ==
  [s EXCEPT
    !.MSHR = iter_swap([@ EXCEPT ![i] =
                          [@ EXCEPT !.data = packet.data,
                                    !.event_cycle = now + (IF wu THEN 0 ELSE FILL_LATENCY)]],
                       i, j),
    !.log.finished = Append(@, BlockOf(packet.address))]

\* CACHE::finish_packet; a response no entry matches is its assert(0)
finish_packet(s, packet, now, wu) ==
  LET match(x) == mshr_match(x, packet.address)
      unreturned(x) == x.event_cycle = UINT64_MAX
  IN  IF \A k \in 1 .. Len(s.MSHR) : ~match(s.MSHR[k])
        THEN [s EXCEPT !.log.unmatched = Append(@, packet)]
        ELSE finish_packet_at(s, packet, FindIf(s.MSHR, match),
                              FindIf(s.MSHR, unreturned), now, wu)

(***************************************************************************)
(* CACHE::operate, step by step.                                           *)
(***************************************************************************)
EmptyLog ==
  [fills |-> <<>>, fill_refused |-> <<>>, mshr_filled |-> 0, tags |-> <<>>,
   merges |-> <<>>, refused |-> <<>>, forwards |-> <<>>, finished |-> <<>>,
   unmatched |-> <<>>, ranks |-> <<>>, hooks |-> <<>>]

\* for (auto* ul : upper_levels) ul->check_collision();
collision_pass(s) ==
  [s EXCEPT !.upper_levels = [u \in Uppers |-> check_collision(@[u])]]

\* std::for_each over lower_level->returned of finish_packet
RECURSIVE finish_returns(_, _, _, _)
finish_returns(s, returned, now, wu) ==
  IF returned = <<>> THEN s
  ELSE finish_returns(finish_packet(s, Head(returned), now, wu), Tail(returned), now, wu)

\* "Finish returns": every response is finished, the returned list cleared
drain_returns(s, now, wu) ==
  [finish_returns(s, s.lower_level.returned, now, wu) EXCEPT
     !.lower_level.returned = <<>>]

page_number(address) == address \div Pow2(cfg.PAGE_BITS)
page_offset(address) == address % Pow2(cfg.PAGE_BITS)
splice(page, offset) == page * Pow2(cfg.PAGE_BITS) + offset

\* finish_translation's mark_translated
mark_translated(entry, packet) ==
  [entry EXCEPT !.address = splice(page_number(packet.data), page_offset(entry.v_address)),
                !.is_translated = TRUE]

\* CACHE::finish_translation
finish_translation(s, packet) ==
  LET matches_vpage(e) == page_number(e.v_address) = page_number(packet.v_address)
      other_vpage(e) == ~matches_vpage(e)
      untranslated(e) == ~e.is_translated
      finish_begin == FindIf(s.translation_stash, untranslated)
      restarted == SelectSeq(Drop(s.translation_stash, finish_begin - 1), matches_vpage)
  IN  [s EXCEPT
        !.translation_stash =
           Take(@, finish_begin - 1)
             \o [i \in 1 .. Len(restarted) |-> mark_translated(restarted[i], packet)]
             \o SelectSeq(Drop(@, finish_begin - 1), other_vpage),
        !.inflight_tag_check =
           [i \in 1 .. Len(@) |->
              IF matches_vpage(@[i]) THEN mark_translated(@[i], packet) ELSE @[i]]]

RECURSIVE finish_translations(_, _)
finish_translations(s, returned) ==
  IF returned = <<>> THEN s
  ELSE finish_translations(finish_translation(s, Head(returned)), Tail(returned))

\* "Finish translations", when lower_translate is not null
drain_translations(s) ==
  IF ~cfg.has_translate \/ s.lower_translate.returned = <<>> THEN s
  ELSE [finish_translations(s, s.lower_translate.returned) EXCEPT
          !.lower_translate.returned = <<>>]

\* handle_fill on q[k+1], .., q[n] in turn until one fails (std::find_if_not);
\* victims[i] is what the replacement policy answers if asked for q[i]
RECURSIVE fill_until_fail(_, _, _, _, _, _)
fill_next(r, q, n, k, victims, now) ==
  IF r.ok THEN fill_until_fail(r.s, q, n, k + 1, victims, now)
  ELSE [s |-> r.s, done |-> k]

fill_until_fail(s, q, n, k, victims, now) ==
  IF k >= n THEN [s |-> s, done |-> k]
  ELSE fill_next(handle_fill(s, q[k + 1], victims[k + 1], now), q, n, k, victims, now)

\* the entries of q that "Perform fills" looks at with fill_bw left
fill_span(q, fill_bw, now) ==
  LET ready(x) == x.event_cycle <= now
  IN  SpanP(q, fill_bw, ready)

\* the second round of "Perform fills", over inflight_writes
fill_writes_erase(r) == [r.s EXCEPT !.inflight_writes = Drop(@, r.done)]

fill_writes(s, fill_bw, victims, now) ==
  fill_writes_erase(
    fill_until_fail(s, s.inflight_writes, fill_span(s.inflight_writes, fill_bw, now),
                    0, victims, now))

MutFillBudgetPerList(r, wvictims, now) ==
  fill_writes([r.s EXCEPT !.MSHR = Drop(@, r.done), !.log.mshr_filled = r.done],
              MAX_FILL, wvictims, now)

\* the first round of "Perform fills", over the MSHR
fill_mshr_erase(r, wvictims, now) ==
  fill_writes([r.s EXCEPT !.MSHR = Drop(@, r.done), !.log.mshr_filled = r.done],
              MAX_FILL - r.done, wvictims, now)

\* "Perform fills"
perform_fills(s, victims, wvictims, now) ==
  fill_mshr_erase(
    fill_until_fail(s, s.MSHR, fill_span(s.MSHR, MAX_FILL, now), 0, victims, now),
    wvictims, now)

MutTagCheckNoLatency(now, wu) == now

\* the event_cycle initiate_tag_check stamps
tag_check_cycle(now, wu) == now + (IF wu THEN 0 ELSE HIT_LATENCY)

\* initiate_tag_check<true>(ul), on an entry of an upper level's queue
initiate_tag_check_ul(entry, ul, now, wu) ==
  [tag_lookup_type(entry, FALSE, FALSE) EXCEPT
     !.event_cycle = tag_check_cycle(now, wu),
     !.to_return = IF entry.response_requested THEN <<ul>> ELSE <<>>]

\* initiate_tag_check<false>(), on an entry of the stash or of internal_PQ
initiate_tag_check(entry, now, wu) ==
  [entry EXCEPT !.event_cycle = tag_check_cycle(now, wu)]

MutTagBwUnclamped(inflight) == MAX_TAG

MutTagBwFloor(inflight) == Max(MAX_TAG * HIT_LATENCY - Len(inflight), 1)

\* tag_bw at the start of "Initiate tag checks"
tag_bandwidth(inflight) ==
  Min(Max(MAX_TAG * HIT_LATENCY - Len(inflight), 0), MAX_TAG)

\* transform_if_n over translation_stash; r is [s, bw]
intake_stash(s, bw, now, wu) ==
  LET translated(e) == e.is_translated
      n == SpanP(s.translation_stash, bw, translated)
  IN  [s |-> [s EXCEPT
               !.translation_stash = Drop(@, n),
               !.inflight_tag_check =
                  @ \o [i \in 1 .. n |-> initiate_tag_check(s.translation_stash[i], now, wu)]],
       bw |-> bw - n]

\* transform_if_n over the queue q of upper level ul
intake_queue(r, ul, q, avail, now, wu) ==
  LET can_translate(e) == avail \/ e.is_translated
      n == SpanP(r.s.upper_levels[ul][q], r.bw, can_translate)
  IN  [s |-> [r.s EXCEPT
               !.upper_levels[ul][q] = Drop(@, n),
               !.inflight_tag_check =
                  @ \o [i \in 1 .. n |->
                          initiate_tag_check_ul(r.s.upper_levels[ul][q][i], ul, now, wu)]],
       bw |-> r.bw - n]

\* the order in which operate visits the upper levels' queues
UpperQueues ==
  <<<<1, "WQ">>, <<1, "RQ">>, <<1, "PQ">>, <<2, "WQ">>, <<2, "RQ">>, <<2, "PQ">>>>

RECURSIVE intake_uppers(_, _, _, _, _)
intake_uppers(r, uq, avail, now, wu) ==
  IF uq = <<>> THEN r
  ELSE intake_uppers(intake_queue(r, Head(uq)[1], Head(uq)[2], avail, now, wu),
                     Tail(uq), avail, now, wu)

\* transform_if_n over internal_PQ, whose return value is not used
intake_internal(r, avail, now, wu) ==
  LET can_translate(e) == avail \/ e.is_translated
      n == SpanP(r.s.internal_PQ, r.bw, can_translate)
  IN  [r.s EXCEPT
        !.internal_PQ = Drop(@, n),
        !.inflight_tag_check =
           @ \o [i \in 1 .. n |-> initiate_tag_check(r.s.internal_PQ[i], now, wu)]]

\* "Initiate tag checks"
initiate_tag_checks(s, now, wu) ==
  intake_internal(
    intake_uppers(intake_stash(s, tag_bandwidth(s.inflight_tag_check), now, wu),
                  UpperQueues, Len(s.translation_stash) < MSHR_SIZE, now, wu),
    Len(s.translation_stash) < MSHR_SIZE, now, wu)

\* issue_translation's body for the inflight tag check i
issue_translation_at(s, i) ==
  LET q_entry == s.inflight_tag_check[i]
      sent == chan_add(s.lower_translate, "RQ",
                       Request(q_entry.address, q_entry.v_address, q_entry.data, "LOAD",
                               TRUE, TRUE, q_entry.instr_depend_on_me),
                       cfg.TRANSLATE_SIZE)
  IN  IF ~q_entry.translate_issued /\ ~q_entry.is_translated
        THEN [s EXCEPT !.inflight_tag_check[i].translate_issued = sent.ok,
                       !.lower_translate = sent.ch]
        ELSE s

\* CACHE::issue_translation, from the inflight tag check i on
RECURSIVE issue_translation(_, _)
issue_translation(s, i) ==
  IF i > Len(s.inflight_tag_check) THEN s
  ELSE issue_translation(issue_translation_at(s, i), i + 1)

MutStashUnissued(s, now) ==
  LET late(x) == x.event_cycle < now /\ ~x.is_translated
      stays(x) == ~late(x)
  IN  [s EXCEPT
        !.translation_stash = @ \o SelectSeq(s.inflight_tag_check, late),
        !.inflight_tag_check = SelectSeq(@, stays)]

\* "Find entries that would be ready except that they have not finished
\* translation, move them to the stash" (champsim::extract_if)
stash_stragglers(s, now) ==
  LET straggler(x) == x.event_cycle < now /\ ~x.is_translated /\ x.translate_issued
      stays(x) == ~straggler(x)
  IN  [s EXCEPT
        !.translation_stash = @ \o SelectSeq(s.inflight_tag_check, straggler),
        !.inflight_tag_check = SelectSeq(@, stays)]

\* operate's do_tag_check once try_hit has answered h
do_tag_check_miss(h, pkt, now, wu) ==
  IF h.ok THEN h
  ELSE IF pkt.type = "WRITE" /\ ~match_offset_bits
    THEN handle_write(h.s, pkt, now, wu)
  ELSE handle_miss(h.s, pkt, now)

\* operate's do_tag_check
do_tag_check(s, pkt, now, wu) == do_tag_check_miss(try_hit(s, pkt), pkt, now, wu)

\* do_tag_check on q[k+1], .., q[n] in turn until one fails
RECURSIVE check_until_fail(_, _, _, _, _, _)
check_next(r, q, n, k, now, wu) ==
  IF r.ok THEN check_until_fail(r.s, q, n, k + 1, now, wu)
  ELSE [s |-> r.s, done |-> k]

check_until_fail(s, q, n, k, now, wu) ==
  IF k >= n THEN [s |-> s, done |-> k]
  ELSE check_next(do_tag_check(s, q[k + 1], now, wu), q, n, k, now, wu)

\* the erase that ends "Perform tag checks"
tag_check_erase(r) == [r.s EXCEPT !.inflight_tag_check = Drop(@, r.done)]

\* "Perform tag checks"
perform_tag_checks(s, now, wu) ==
  LET ready(pkt) == pkt.event_cycle <= now /\ pkt.is_translated
  IN  tag_check_erase(
        check_until_fail(s, s.inflight_tag_check,
                         SpanP(s.inflight_tag_check, MAX_TAG, ready), 0, now, wu))

\* CACHE::operate
operate(s, victims, wvictims, now, wu) ==
  perform_tag_checks(
    stash_stragglers(
      issue_translation(
        initiate_tag_checks(
          perform_fills(
            drain_translations(drain_returns(collision_pass(s), now, wu)),
            victims, wvictims, now),
          now, wu),
        1),
      now),
    now, wu)

(***************************************************************************)
(* Address slices (inc/address.h): the bits [lower, upper) of a word of    *)
(* `bits` bits, held in the low bits of value.  underlying_type is the     *)
(* unsigned word and difference_type the signed one.                       *)
(***************************************************************************)
bits == 3

Word == 0 .. (2^bits - 1)
Delta == (0 - 2^(bits - 1)) .. (2^(bits - 1) - 1)

\* static_cast<underlying_type> of an integer
to_underlying(n) == n % 2^bits

\* static_cast<difference_type> of a word
to_difference(n) == IF n >= 2^(bits - 1) THEN n - 2^bits ELSE n

\* champsim::bitmask(begin, end): the bits [end, begin) of a word
bitmask(begin, end) == {b \in 0 .. (bits - 1) : end <= b /\ b < begin}

\* whether bit b of a word is set
bit_set(val, b) == (val \div 2^b) % 2 = 1

\* val & mask
RECURSIVE bit_and(_, _, _)
bit_and(val, mask, b) ==
  IF b >= bits THEN 0
  ELSE (IF b \in mask /\ bit_set(val, b) THEN 2^b ELSE 0) + bit_and(val, mask, b + 1)

\* val >> n and val << n on a word, for n < bits
shift_right(val, n) == val \div 2^n
shift_left(val, n) == to_underlying(val * 2^n)

MutSliceUnmasked(up, low, val) == [upper |-> up, lower |-> low, value |-> val]

\* address_slice(up, low, underlying_type val)
address_slice(up, low, val) ==
  [upper |-> up, lower |-> low, value |-> bit_and(val, bitmask(up - low, 0), 0)]

\* address_slice(up, low, address_slice val), shifted being val.value << val.lower
address_slice_from(up, low, shifted) ==
  [upper |-> up, lower |-> low,
   value |-> shift_right(bit_and(shifted, bitmask(up, low), 0), low)]

MutPlusUnmasked(a, delta) ==
  [a EXCEPT !.value = to_underlying(a.value + to_underlying(delta))]

\* address_slice_impl::operator+=
plus_assign(a, delta) ==
  [a EXCEPT !.value = bit_and(to_underlying(a.value + to_underlying(delta)),
                              bitmask(a.upper - a.lower, 0), 0)]

\* -delta, in difference_type
negate(delta) == to_difference(to_underlying(0 - delta))

\* address_slice_impl::operator-=
minus_assign(a, delta) == plus_assign(a, negate(delta))

\* address_slice_impl::slice(slice_upper, slice_lower)
slice(a, slice_up, slice_low) ==
  address_slice_from(slice_up + a.lower, slice_low + a.lower,
                     shift_left(a.value, a.lower))

\* a default-constructed address: the whole word, zero
ZeroAddress == [upper |-> bits, lower |-> 0, value |-> 0]

\* the slice under test with the operation that made it, its argument and
\* the slice it was applied to
made(a, op, arg, from) == [slice |-> a, op |-> op, arg |-> arg, from |-> from]

DefaultAddress == made(ZeroAddress, "default", 0, ZeroAddress)

(***************************************************************************)
(* The memory controller (src/dram_controller.cc): one DRAM_CHANNEL, its   *)
(* RQ and WQ of optional requests, one BANK_REQUEST for each bank of each  *)
(* rank, and the channel of the upper level that sends the requests.       *)
(***************************************************************************)
\* a channel of two ranks of two banks of two rows of two columns, of
\* blocks of two bytes; the times are in cycles of the channel
DramCfg ==
  [LOG2_BLOCK_SIZE |-> 1, DRAM_CHANNELS |-> 1, DRAM_BANKS |-> 2, DRAM_COLUMNS |-> 2,
   DRAM_RANKS |-> 2, DRAM_ROWS |-> 2,
   DRAM_RQ_SIZE |-> 2, DRAM_WQ_SIZE |-> 3,
   DRAM_WRITE_HIGH_WM |-> 2, DRAM_WRITE_LOW_WM |-> 2,
   tRP |-> 2, tRCD |-> 1, tCAS |-> 1,
   DRAM_DBUS_TURN_AROUND_TIME |-> 2, DRAM_DBUS_RETURN_TIME |-> 2,
   refresh_period |-> 8, UPPER_SIZE |-> 2]

LOG2_BLOCK_SIZE == DramCfg.LOG2_BLOCK_SIZE
DRAM_CHANNELS == DramCfg.DRAM_CHANNELS
DRAM_BANKS == DramCfg.DRAM_BANKS
DRAM_COLUMNS == DramCfg.DRAM_COLUMNS
DRAM_RANKS == DramCfg.DRAM_RANKS
DRAM_ROWS == DramCfg.DRAM_ROWS
DRAM_WRITE_HIGH_WM == DramCfg.DRAM_WRITE_HIGH_WM
DRAM_WRITE_LOW_WM == DramCfg.DRAM_WRITE_LOW_WM
tRP == DramCfg.tRP
tRCD == DramCfg.tRCD
tCAS == DramCfg.tCAS
DRAM_DBUS_TURN_AROUND_TIME == DramCfg.DRAM_DBUS_TURN_AROUND_TIME
DRAM_DBUS_RETURN_TIME == DramCfg.DRAM_DBUS_RETURN_TIME

\* champsim::lg2 of a power of two
lg2(n) == IF n = 1 THEN 0 ELSE IF n = 2 THEN 1 ELSE IF n = 4 THEN 2 ELSE 3

\* (address >> shift) & champsim::bitmask(width)
shift_mask(address, shift, width) == (address \div 2^shift) % 2^width

\* MEMORY_CONTROLLER::dram_get_channel
dram_get_channel(address) == shift_mask(address, LOG2_BLOCK_SIZE, lg2(DRAM_CHANNELS))

\* DRAM_CHANNEL::get_bank
get_bank(address) ==
  shift_mask(address, lg2(DRAM_CHANNELS) + LOG2_BLOCK_SIZE, lg2(DRAM_BANKS))

\* DRAM_CHANNEL::get_column
get_column(address) ==
  shift_mask(address, lg2(DRAM_BANKS) + lg2(DRAM_CHANNELS) + LOG2_BLOCK_SIZE,
             lg2(DRAM_COLUMNS))

\* DRAM_CHANNEL::get_rank
get_rank(address) ==
  shift_mask(address,
             lg2(DRAM_BANKS) + lg2(DRAM_COLUMNS) + lg2(DRAM_CHANNELS) + LOG2_BLOCK_SIZE,
             lg2(DRAM_RANKS))

\* DRAM_CHANNEL::get_row
get_row(address) ==
  shift_mask(address,
             lg2(DRAM_RANKS) + lg2(DRAM_BANKS) + lg2(DRAM_COLUMNS) + lg2(DRAM_CHANNELS)
               + LOG2_BLOCK_SIZE,
             lg2(DRAM_ROWS))

\* the block of an address (address >> LOG2_BLOCK_SIZE)
dram_block(address) == address \div 2^LOG2_BLOCK_SIZE

\* an optional without a value: an empty slot of RQ or WQ, no open row, the
\* end of bank_request
nullopt == [has_value |-> FALSE]
NoRow == 0 - 1
NoBank == 0 - 1

\* DRAM_CHANNEL::request_type::request_type(req), as add_rq and add_wq
\* leave it
dram_request(req, to_return, now) ==
  [has_value |-> TRUE, address |-> req.address, v_address |-> req.address,
   data |-> req.data, instr_depend_on_me |-> req.instr_depend_on_me,
   to_return |-> to_return, scheduled |-> FALSE, forward_checked |-> FALSE,
   event_cycle |-> now]

\* DRAM_CHANNEL::BANK_REQUEST, default-constructed
EmptyBank ==
  [valid |-> FALSE, row_buffer_hit |-> FALSE, need_refresh |-> FALSE,
   under_refresh |-> FALSE, open_row |-> NoRow, event_cycle |-> 0,
   pkt |-> [q |-> "RQ", i |-> 0]]

Banks == 0 .. (DRAM_RANKS * DRAM_BANKS - 1)

\* DRAM_CHANNEL::stats_type
ZeroDramStats ==
  [RQ_ROW_BUFFER_HIT |-> 0, RQ_ROW_BUFFER_MISS |-> 0, WQ_ROW_BUFFER_HIT |-> 0,
   WQ_ROW_BUFFER_MISS |-> 0, WQ_FULL |-> 0, dbus_cycle_congested |-> 0,
   dbus_count_congested |-> 0, refresh_cycles |-> 0]

\* what the calls of one tick of the channel did
EmptyDramLog ==
  [added |-> <<>>, dropped |-> <<>>, forwarded |-> <<>>, merged |-> <<>>,
   finished |-> <<>>, swapped |-> FALSE, refreshed |-> {}, on_bus |-> <<>>,
   serviced |-> <<>>]

\* the controller after construction: empty queues, idle banks, read mode
IdleDram ==
  [current_cycle |-> 0, warmup |-> TRUE,
   RQ |-> [i \in 1 .. DramCfg.DRAM_RQ_SIZE |-> nullopt],
   WQ |-> [i \in 1 .. DramCfg.DRAM_WQ_SIZE |-> nullopt],
   bank_request |-> [b \in Banks |-> EmptyBank],
   active_request |-> NoBank,
   write_mode |-> FALSE, dbus_cycle_available |-> 0, refresh_row |-> 0,
   sim_stats |-> ZeroDramStats,
   ul |-> EmptyChannel,
   nreq |-> 0, log |-> EmptyDramLog,
   last_row |-> [b \in Banks |-> NoRow]]

(***************************************************************************)
(* The branch predictors and BTBs an O3_CPU composes (inc/ooo_cpu.h        *)
(* 213-231, 488-521).  The modules themselves are pluggable: here a        *)
(* predictor that repeats the last outcome of a branch and one that says   *)
(* taken once the branch was ever taken, a BTB that learns the target of   *)
(* a taken branch and one that learns every target.                        *)
(***************************************************************************)
Ips == {0, 1}
Targets == {1, 2}
NoTarget == 0

NoIp == 0 - 1

\* a module of the pack Bs... or Ts..., as constructed; a module remembers
\* the branch it was last asked about
predictor(kind) ==
  [kind |-> kind, taken |-> [ip \in Ips |-> FALSE], asked |-> NoIp]
btb(kind) ==
  [kind |-> kind, target |-> [ip \in Ips |-> NoTarget], asked |-> NoIp]

\* a call's effect: the module after it and what it returns
effect(module, value) == [module |-> module, value |-> value]
void == <<>>

\* b.predict_branch(ip)
predict_branch(b, ip) == effect([b EXCEPT !.asked = ip], b.taken[ip])

\* b.last_branch_result(ip, target, taken, branch_type)
last_branch_result(b, ip, target, taken) ==
  IF b.kind = "last" THEN effect([b EXCEPT !.taken[ip] = taken], void)
  ELSE effect([b EXCEPT !.taken[ip] = @ \/ taken], void)

\* t.btb_prediction(ip): (target, hit)
btb_prediction(t, ip) ==
  effect([t EXCEPT !.asked = ip], <<t.target[ip], t.target[ip] # NoTarget>>)

\* t.update_btb(ip, predicted_target, taken, branch_type)
update_btb(t, ip, predicted_target, taken) ==
  IF t.kind = "taken" /\ ~taken THEN effect(t, void)
  ELSE effect([t EXCEPT !.target[ip] = predicted_target], void)

module_call(call, module, ip, target, taken) ==
  CASE call = "predict_branch" -> predict_branch(module, ip)
    [] call = "last_branch_result" -> last_branch_result(module, ip, target, taken)
    [] call = "btb_prediction" -> btb_prediction(module, ip)
    [] call = "update_btb" -> update_btb(module, ip, target, taken)

MutFirstVoteWins(out, k, call, ip, target, taken) ==
  [intern |-> [out.intern EXCEPT
                 ![k] = module_call(call, out.intern[k], ip, target, taken).module],
   calls |-> Append(out.calls, k),
   value |-> IF k = 1 THEN module_call(call, out.intern[k], ip, target, taken).value
             ELSE out.value]

\* one operand of the fold: the call on module k, after the operands to its
\* left; the value of the comma operator is that of its right operand
comma(out, k, call, ip, target, taken) ==
  [intern |-> [out.intern EXCEPT
                 ![k] = module_call(call, out.intern[k], ip, target, taken).module],
   calls |-> Append(out.calls, k),
   value |-> module_call(call, out.intern[k], ip, target, taken).value]

\* std::apply of the fold (..., m.call(args)) to intern_
RECURSIVE comma_fold(_, _, _, _, _, _)
comma_fold(out, k, call, ip, target, taken) ==
  IF k > Len(out.intern) THEN out
  ELSE comma_fold(comma(out, k, call, ip, target, taken), k + 1, call, ip, target, taken)

apply(intern, call, ip, target, taken) ==
  comma_fold([intern |-> intern, calls |-> <<>>, value |-> void], 1, call, ip,
             target, taken)

\* branch_module_model::impl_predict_branch
impl_predict_branch(intern, ip) == apply(intern, "predict_branch", ip, NoTarget, FALSE)

\* branch_module_model::impl_last_branch_result
impl_last_branch_result(intern, ip, target, taken) ==
  apply(intern, "last_branch_result", ip, target, taken)

\* btb_module_model::impl_btb_prediction
impl_btb_prediction(intern, ip) == apply(intern, "btb_prediction", ip, NoTarget, FALSE)

\* btb_module_model::impl_update_btb
impl_update_btb(intern, ip, predicted_target, taken) ==
  apply(intern, "update_btb", ip, predicted_target, taken)

\* a core with two predictors and two BTBs, nothing called yet
InitialCpu ==
  [branch |-> <<predictor("last"), predictor("ever")>>,
   btb |-> <<btb("taken"), btb("every")>>,
   op |-> "none", ip |-> NoIp, target |-> NoTarget, taken |-> FALSE,
   calls |-> <<>>, value |-> void]

(***************************************************************************)
(* The cache under test and what surrounds it: two upper levels that issue *)
(* requests and read their responses, a prefetcher that calls              *)
(* prefetch_line, a replacement policy that names victims, and a lower     *)
(* level that takes requests and answers the reads.                        *)
(***************************************************************************)
\* a cache of two sets of one way with two MSHRs; the latencies and the
\* bandwidths are those of test/cpp/src/420-issue-prefetch.cc
BaseCfg ==
  [NUM_SET |-> 2, NUM_WAY |-> 1, MSHR_SIZE |-> 2, PQ_SIZE |-> 1,
   HIT_LATENCY |-> 2, FILL_LATENCY |-> 2, MAX_TAG |-> 1, MAX_FILL |-> 1,
   OFFSET_BITS |-> 1, PAGE_BITS |-> 2,
   prefetch_as_load |-> FALSE, match_offset_bits |-> FALSE,
   virtual_prefetch |-> FALSE, has_translate |-> FALSE,
   UPPER_SIZE |-> 1, LOWER_SIZE |-> [RQ |-> 2, WQ |-> 1, PQ |-> 1],
   TRANSLATE_SIZE |-> 1,
   loads |-> {}, writes |-> {}, prefetches |-> {}, upper_prefetches |-> {},
   requests |-> MaxReq,
   drain |-> FALSE]

\* what the lower level answers for a block it is asked for
InitialData(address) == 100 + BlockOf(address)
\* what an upper level writes
WriteData(address) == 200 + address

NotReturned == 0 - 1

\* no request is anywhere in the cache, and no response is on its way
Idle ==
  /\ MSHR = <<>> /\ inflight_writes = <<>> /\ inflight_tag_check = <<>>
  /\ translation_stash = <<>> /\ internal_PQ = <<>>
  /\ \A u \in Uppers :
       upper_levels[u].RQ = <<>> /\ upper_levels[u].WQ = <<>> /\ upper_levels[u].PQ = <<>>
  /\ lower_level.RQ = <<>> /\ lower_level.PQ = <<>> /\ lower_level.returned = <<>>

\* nothing in the cache is about the block b
Quiet(b) ==
  LET other(x) == BlockOf(x.address) # b
  IN  /\ \A i \in 1 .. Len(MSHR) : other(MSHR[i])
      /\ \A i \in 1 .. Len(inflight_writes) : other(inflight_writes[i])
      /\ \A i \in 1 .. Len(inflight_tag_check) : other(inflight_tag_check[i])
      /\ \A i \in 1 .. Len(internal_PQ) : other(internal_PQ[i])
      /\ \A u \in Uppers, q \in {"RQ", "WQ", "PQ"} :
           \A i \in 1 .. Len(upper_levels[u][q]) : other(upper_levels[u][q][i])
      /\ \A q \in {"RQ", "PQ", "returned"} :
           \A i \in 1 .. Len(lower_level[q]) : other(lower_level[q][i])

\* the run is within its bound; past it, a workload that drains lets the
\* cache finish what it holds, the lower level answering before every tick
InTime == current_cycle < MaxCycle
Draining ==
  /\ cfg.drain
  /\ ~Idle
  /\ lower_level.RQ = <<>> /\ lower_level.PQ = <<>> /\ lower_level.WQ = <<>>

\* the cache holds the block of address
Holds(address) ==
  \E w \in Ways :
    /\ block[get_set_index(address)][w].valid
    /\ BlockOf(block[get_set_index(address)][w].address) = BlockOf(address)

ZeroStats ==
  [hits |-> [ty \in AccessTypes |-> 0], misses |-> [ty \in AccessTypes |-> 0],
   pf_requested |-> 0, pf_issued |-> 0, pf_useful |-> 0, pf_useless |-> 0,
   pf_fill |-> 0]

(***************************************************************************)
(* The page-table walker (src/ptw.cc) as it is constructed.                *)
(***************************************************************************)
\* a walker of two upper levels with two PSCLs (a walk of three levels),
\* room for two walks, and a lower level whose RQ holds three requests
PtwCfg ==
  [MSHR_SIZE |-> 2, MAX_READ |-> 2, MAX_FILL |-> 2, HIT_LATENCY |-> 2,
   NUM_PSCL |-> 2, LOWER_SIZE |-> 3, UPPER_SIZE |-> 2]

PtwMaxReq == 3

EmptyPtwLog == [issued |-> <<>>, filled |-> <<>>, delivered |-> <<>>]

\* what is known of the walk of request n: the levels of the reads issued
\* for it, when and in which phase its level-0 PTE returned, and its
\* deliveries
NoWalk ==
  [levels |-> <<>>, returned0 |-> 0 - 1, warm0 |-> FALSE, delivered |-> 0,
   delivered_at |-> 0 - 1]

\* the walker after construction: no walk, empty PSCLs
IdlePtw ==
  [warmup |-> TRUE, MSHR |-> <<>>, finished |-> <<>>, completed |-> <<>>,
   pscl |-> [i \in 1 .. PtwCfg.NUM_PSCL |-> {}],
   ul |-> [u \in Uppers |-> [RQ |-> <<>>, returned |-> <<>>]],
   ll |-> [RQ |-> <<>>, returned |-> <<>>],
   nreq |-> 0, hist |-> [n \in 1 .. PtwMaxReq |-> NoWalk], log |-> EmptyPtwLog]

\* the state after construction, the simulation being in its warm-up phase
InitCache(c) ==
  /\ cfg = c
  /\ current_cycle = 0
  /\ warmup = TRUE
  /\ block = [st \in 0 .. (c.NUM_SET - 1) |-> [w \in 0 .. (c.NUM_WAY - 1) |-> EmptyBlock]]
  /\ MSHR = <<>>
  /\ inflight_writes = <<>>
  /\ inflight_tag_check = <<>>
  /\ translation_stash = <<>>
  /\ internal_PQ = <<>>
  /\ upper_levels = [u \in Uppers |-> EmptyChannel]
  /\ lower_level = EmptyChannel
  /\ lower_translate = EmptyChannel
  /\ sim_stats = ZeroStats
  /\ packets = <<>>
  /\ arrival = <<>>
  /\ nreq = 0
  /\ tick_log = EmptyLog
  /\ dram = IdleDram
  /\ controller_cycle = 0
  /\ addr = DefaultAddress
  /\ cpu = InitialCpu
  /\ ptw = IdlePtw
  /\ ptw_cycle = 0

\* the end of the warm-up phase
EndWarmup ==
  /\ warmup
  /\ warmup' = FALSE
  /\ UNCHANGED <<beside_cache, cfg, current_cycle, block, MSHR, inflight_writes, inflight_tag_check,
                 translation_stash, internal_PQ, upper_levels, lower_level,
                 lower_translate, sim_stats, packets, arrival, nreq, tick_log>>

\* the requesters' records once another request has been issued, for the
\* block b
not_alone(pkts, b) ==
  [i \in 1 .. Len(pkts) |->
     [pkts[i] EXCEPT
        !.solo = @ /\ pkts[i].return_time # NotReturned,
        !.quiet = @ /\ BlockOf(pkts[i].address) # b]]

\* an upper level adds a read to its RQ, a write to its WQ or a prefetch of
\* its own to its PQ
Issue(ul, type, address) ==
  /\ nreq < cfg.requests
  /\ InTime
  /\ \/ type = "LOAD" /\ <<ul, address>> \in cfg.loads
     \/ type = "WRITE" /\ <<ul, address>> \in cfg.writes
     \/ type = "PREFETCH" /\ <<ul, address>> \in cfg.upper_prefetches
  /\ LET q == IF type = "WRITE" THEN "WQ" ELSE IF type = "PREFETCH" THEN "PQ" ELSE "RQ"
         sent == chan_add(upper_levels[ul], q,
                          Request(address, address,
                                  IF type = "WRITE" THEN WriteData(address) ELSE 0,
                                  type, type # "WRITE", ~cfg.has_translate,
                                  <<nreq + 1>>),
                          cfg.UPPER_SIZE)
     IN  /\ sent.ok
         /\ upper_levels' = [upper_levels EXCEPT ![ul] = sent.ch]
         /\ packets' =
              IF type # "LOAD" THEN not_alone(packets, BlockOf(address))
              ELSE Append(not_alone(packets, BlockOf(address)),
                          [id |-> nreq + 1, kind |-> "LOAD", ul |-> ul,
                           address |-> address, issue_time |-> current_cycle,
                           return_time |-> NotReturned, solo |-> Idle,
                           quiet |-> Quiet(BlockOf(address)), bypassed |-> FALSE,
                           held |-> Holds(address), warm |-> warmup,
                           pf_fill |-> sim_stats.pf_fill])
  /\ nreq' = nreq + 1
  /\ UNCHANGED <<beside_cache, cfg, current_cycle, warmup, block, MSHR, inflight_writes,
                 inflight_tag_check, translation_stash, internal_PQ, lower_level,
                 lower_translate, sim_stats, arrival, tick_log>>

MutPqNeverFull(pq) == FALSE

\* if (std::size(internal_PQ) >= PQ_SIZE) return false;
pq_full(pq) == Len(pq) >= PQ_SIZE

\* CACHE::prefetch_line, called by the prefetcher
PrefetchLine(pf_addr, fill_this_level) ==
  /\ nreq < cfg.requests
  /\ InTime
  /\ <<pf_addr, fill_this_level>> \in cfg.prefetches
  /\ nreq' = nreq + 1
  /\ IF pq_full(internal_PQ)
       THEN /\ sim_stats' = Bump(sim_stats, "pf_requested")
            /\ packets' = not_alone(packets, BlockOf(pf_addr))
            /\ UNCHANGED internal_PQ
       ELSE /\ packets' =
                 Append(not_alone(packets, BlockOf(pf_addr)),
                        [id |-> nreq + 1, kind |-> "PREFETCH", ul |-> 0,
                         address |-> pf_addr, issue_time |-> current_cycle,
                         return_time |-> NotReturned, solo |-> Idle,
                         quiet |-> Quiet(BlockOf(pf_addr)), bypassed |-> FALSE,
                         held |-> Holds(pf_addr), warm |-> warmup,
                         pf_fill |-> sim_stats.pf_fill])
            /\ internal_PQ' =
                 Append(internal_PQ,
                        tag_lookup_type(
                          Request(pf_addr, IF virtual_prefetch THEN pf_addr ELSE 0, 0,
                                  "PREFETCH", TRUE, ~virtual_prefetch, <<>>),
                          TRUE, ~fill_this_level))
            /\ sim_stats' = Bump(Bump(sim_stats, "pf_requested"), "pf_issued")
  /\ UNCHANGED <<beside_cache, cfg, current_cycle, warmup, block, MSHR, inflight_writes,
                 inflight_tag_check, translation_stash, upper_levels, lower_level,
                 lower_translate, arrival, tick_log>>

\* the lower level takes the entry i of its queue q and answers it if a
\* response is requested
LowerOperate(q, i) ==
  /\ InTime \/ cfg.drain
  /\ i \in 1 .. Len(lower_level[q])
  /\ lower_level' =
       [lower_level EXCEPT
          ![q] = Take(@, i - 1) \o Drop(@, i),
          !.returned =
             IF lower_level[q][i].response_requested
               THEN Append(@, Response(lower_level[q][i].address,
                                       lower_level[q][i].v_address,
                                       InitialData(lower_level[q][i].address),
                                       lower_level[q][i].instr_depend_on_me))
               ELSE @]
  /\ UNCHANGED <<beside_cache, cfg, current_cycle, warmup, block, MSHR, inflight_writes,
                 inflight_tag_check, translation_stash, internal_PQ, upper_levels,
                 lower_translate, sim_stats, packets, arrival, nreq, tick_log>>

\* an upper level reads a response: the reads the response names as its
\* dependents have returned
stamp_return(pkts, ul, response, now) ==
  [i \in 1 .. Len(pkts) |->
     IF /\ pkts[i].kind = "LOAD" /\ pkts[i].ul = ul /\ pkts[i].return_time = NotReturned
        /\ \E k \in 1 .. Len(response.instr_depend_on_me) :
             response.instr_depend_on_me[k] = pkts[i].id
       THEN [pkts[i] EXCEPT !.return_time = now]
       ELSE pkts[i]]

RECURSIVE stamp_returns(_, _, _, _)
stamp_returns(pkts, ul, returned, now) ==
  IF returned = <<>> THEN pkts
  ELSE stamp_returns(stamp_return(pkts, ul, Head(returned), now), ul, Tail(returned), now)

\* the prefetcher's records: a prefetch is over when a fill writes its
\* block, and is bypassed when a fill of its block writes no way
stamp_fills(pkts, fills, now) ==
  [i \in 1 .. Len(pkts) |->
     IF pkts[i].kind = "PREFETCH" /\ pkts[i].return_time = NotReturned
       THEN [pkts[i] EXCEPT
               !.return_time =
                  IF \E k \in 1 .. Len(fills) :
                       /\ BlockOf(fills[k].entry.address) = BlockOf(pkts[i].address)
                       /\ fills[k].wrote
                    THEN now ELSE @,
               !.bypassed =
                  @ \/ \E k \in 1 .. Len(fills) :
                         /\ BlockOf(fills[k].entry.address) = BlockOf(pkts[i].address)
                         /\ ~fills[k].wrote]
       ELSE pkts[i]]

\* the position in arr of the block of each of the first n fills, the block
\* leaving arr as it is filled (0 for a block that is not in arr)
RECURSIVE fill_ranks(_, _, _)
fill_ranks(arr, fills, n) ==
  IF n = 0 THEN <<>>
  ELSE LET same(b) == b = BlockOf(Head(fills).entry.address)
           other(b) == ~same(b)
       IN  <<IF \E i \in 1 .. Len(arr) : same(arr[i]) THEN FindIf(arr, same) ELSE 0>>
             \o fill_ranks(SelectSeq(arr, other), Tail(fills), n - 1)

\* arr without the blocks of the first n fills
arrival_left(arr, fills, n) ==
  LET left(b) == \A i \in 1 .. n : b # BlockOf(fills[i].entry.address)
  IN  SelectSeq(arr, left)

\* the cache as operate finds it: the upper levels have read their responses
TickStart ==
  [block |-> block, MSHR |-> MSHR, inflight_writes |-> inflight_writes,
   inflight_tag_check |-> inflight_tag_check, translation_stash |-> translation_stash,
   internal_PQ |-> internal_PQ,
   upper_levels |-> [u \in Uppers |-> [upper_levels[u] EXCEPT !.returned = <<>>]],
   lower_level |-> lower_level, lower_translate |-> lower_translate,
   sim_stats |-> sim_stats, log |-> EmptyLog]

\* the state operate leaves
TickTo(s, pkts, now) ==
  /\ packets' = stamp_fills(pkts, s.log.fills, now)
  /\ block' = s.block
  /\ MSHR' = s.MSHR
  /\ inflight_writes' = s.inflight_writes
  /\ inflight_tag_check' = s.inflight_tag_check
  /\ translation_stash' = s.translation_stash
  /\ internal_PQ' = s.internal_PQ
  /\ upper_levels' = s.upper_levels
  /\ lower_level' = s.lower_level
  /\ lower_translate' = s.lower_translate
  /\ sim_stats' = s.sim_stats
  /\ arrival' = arrival_left(arrival \o s.log.finished, s.log.fills, s.log.mshr_filled)
  /\ tick_log' = [s.log EXCEPT
                    !.ranks = fill_ranks(arrival \o s.log.finished, s.log.fills,
                                         s.log.mshr_filled)]

\* what the replacement policy may answer for the MSHR entries filled in a
\* tick (NUM_WAY to bypass, never for a write) and for the writes
VictimChoices ==
  IF MSHR = <<>> THEN {[k \in 1 .. MAX_FILL |-> 0]}
  ELSE IF \E i \in 1 .. Len(MSHR) : MSHR[i].type = "WRITE"
    THEN [1 .. MAX_FILL -> Ways]
  ELSE [1 .. MAX_FILL -> 0 .. NUM_WAY]

WriteVictimChoices ==
  IF inflight_writes = <<>> THEN {[k \in 1 .. MAX_FILL |-> 0]}
  ELSE [1 .. MAX_FILL -> Ways]

\* one cycle: the upper levels operate, then the cache
Tick(victims, wvictims) ==
  /\ InTime \/ Draining
  /\ current_cycle' = current_cycle + 1
  /\ TickTo(operate(TickStart, victims, wvictims, current_cycle, warmup),
            stamp_returns(stamp_returns(packets, 1, upper_levels[1].returned, current_cycle),
                          2, upper_levels[2].returned, current_cycle),
            current_cycle)
  /\ UNCHANGED <<beside_cache, cfg, warmup, nreq>>

\* the lower level operates on one of its entries
LowerStep == \E q \in {"RQ", "WQ", "PQ"}, i \in 1 .. 2 : LowerOperate(q, i)

\* a cycle passes
TickStep ==
  \E victims \in VictimChoices, wvictims \in WriteVictimChoices : Tick(victims, wvictims)

Next ==
  \/ EndWarmup
  \/ \E ul \in Uppers, type \in {"LOAD", "WRITE", "PREFETCH"}, address \in Addresses :
       Issue(ul, type, address)
  \/ \E pf_addr \in Addresses, fill_this_level \in BOOLEAN : PrefetchLine(pf_addr, fill_this_level)
  \/ LowerStep
  \/ TickStep

(***************************************************************************)
(* Workloads and specifications.                                           *)
(***************************************************************************)
\* reads, writes and prefetches on two blocks of one set
MixedCfg ==
  [BaseCfg EXCEPT !.requests = 3,
                  !.loads = {<<1, 0>>},
                  !.writes = {<<1, 0>>, <<1, 4>>},
                  !.prefetches = {<<4, TRUE>>}]

\* reads of two upper levels and a prefetch, on three blocks
MissCfg ==
  [BaseCfg EXCEPT !.requests = 2,
                  !.loads = {<<1, 0>>, <<2, 1>>, <<2, 4>>},
                  !.prefetches = {<<2, TRUE>>}]

Init == InitCache(MixedCfg)
Spec == Init /\ [][Next]_vars

\* the same reads and prefetch with room for one miss
OneMshrCfg == [MissCfg EXCEPT !.MSHR_SIZE = 1]

InitMiss == \E c \in {MissCfg, OneMshrCfg} : InitCache(c)
SpecMiss == InitMiss /\ [][Next]_vars

\* a prefetch of a block that one upper level reads, and a block of the
\* same set that the other reads
PrefetchCfg ==
  [BaseCfg EXCEPT !.requests = 2,
                  !.loads = {<<1, 0>>, <<2, 4>>},
                  !.prefetches = {<<0, TRUE>>}]

InitPrefetch == InitCache(PrefetchCfg)
SpecPrefetch == InitPrefetch /\ [][Next]_vars

\* a prefetch of a block that an upper level reads, in a run that goes on
\* until the cache has finished what it holds: the simulator calls operate
\* in every cycle, and the lower level answers what it is asked
DrainCfg == [PrefetchCfg EXCEPT !.requests = 3, !.loads = {<<1, 0>>}, !.drain = TRUE]

InitDrain == InitCache(DrainCfg)
\* the clock advances: the step of every tick
ClockStep == (InTime \/ Draining) /\ current_cycle' = current_cycle + 1

FairSpec == InitDrain /\ [][Next]_vars /\ WF_current_cycle(ClockStep) /\ WF_vars(LowerStep)

(***************************************************************************)
(* Properties.                                                             *)
(***************************************************************************)
\* the MSHR entries of a block
mshr_of(b) == {i \in 1 .. Len(MSHR) : BlockOf(MSHR[i].address) = b}

\* the entries of a sequence, as a set of indices
Idx(q) == 1 .. Len(q)

\* C1: at every tick boundary (and between the requests that separate the
\* ticks) the MSHR holds at most MSHR_SIZE entries.
C1_MshrWithinSize == Len(MSHR) <= MSHR_SIZE

\* a miss was refused in the last tick because the MSHR was full
C1_Witness ==
  /\ Len(MSHR) = MSHR_SIZE
  /\ \E i \in Idx(tick_log.refused) : mshr_of(BlockOf(tick_log.refused[i].address)) = {}

victims_written_back ==
  \A i \in Idx(tick_log.fills) :
    LET f == tick_log.fills[i]
    IN  (f.wrote /\ f.victim.valid /\ f.victim.dirty)
          => \E k \in Idx(lower_level.WQ) :
               /\ lower_level.WQ[k].type = "WRITE"
               /\ lower_level.WQ[k].address = f.victim.address
               /\ lower_level.WQ[k].data = f.victim.data

\* C3: at the end of every tick, for every valid and dirty block that a
\* handle_fill of the tick has overwritten, the lower level's WQ holds the
\* WRITE packet with that block's address and data: it was accepted in the
\* tick, before the block was written.
C3_DirtyVictimWrittenBack ==
  [][current_cycle' # current_cycle => victims_written_back']_vars

\* a fill has overwritten a dirty block whose writeback fills the lower
\* level's WQ
C3_Witness ==
  /\ \E i \in Idx(tick_log.fills) :
       /\ tick_log.fills[i].wrote
       /\ tick_log.fills[i].victim.valid
       /\ tick_log.fills[i].victim.dirty
       /\ lower_level.WQ = <<writeback_packet(tick_log.fills[i].victim)>>
  /\ Len(lower_level.WQ) = cfg.LOWER_SIZE.WQ

lower_inflight(b) ==
  Cardinality({k \in Idx(lower_level.RQ) :
                 BlockOf(lower_level.RQ[k].address) = b
                   /\ lower_level.RQ[k].response_requested})
    + Cardinality({k \in Idx(lower_level.PQ) :
                     BlockOf(lower_level.PQ[k].address) = b
                       /\ lower_level.PQ[k].response_requested})
    + Cardinality({k \in Idx(lower_level.returned) :
                     BlockOf(lower_level.returned[k].address) = b})

\* the elements of a sequence
Range(q) == {q[i] : i \in Idx(q)}

\* C9: a block has at most one MSHR entry, and one request at the lower
\* level (or one answer not yet drained) exactly while that entry waits for
\* its response; a miss merged into the entry leaves every requester of
\* both in its to_return; and the fill of an entry has pushed a response
\* with its address and data on the returned queue of each of them.
C9_OneMissManyReaders ==
  /\ \A b \in {BlockOf(a) : a \in Addresses} :
       /\ Cardinality(mshr_of(b)) <= 1
       /\ lower_inflight(b) =
            (IF \E i \in mshr_of(b) : MSHR[i].event_cycle = UINT64_MAX THEN 1 ELSE 0)
  /\ \A k \in Idx(tick_log.merges) :
       \E i \in mshr_of(BlockOf(tick_log.merges[k].pkt.address)) :
         Range(tick_log.merges[k].pkt.to_return) \cup Range(tick_log.merges[k].entry.to_return)
           \subseteq Range(MSHR[i].to_return)
  /\ \A k \in Idx(tick_log.fills) :
       \A ul \in Range(tick_log.fills[k].entry.to_return) :
         \E n \in Idx(upper_levels[ul].returned) :
           /\ upper_levels[ul].returned[n].address = tick_log.fills[k].entry.address
           /\ upper_levels[ul].returned[n].data = tick_log.fills[k].entry.data

\* the one entry of a block that two upper levels read has been filled, and
\* both have their response
C9_Witness ==
  \E k \in Idx(tick_log.fills) :
    /\ tick_log.fills[k].entry.type = "LOAD"
    /\ tick_log.fills[k].entry.to_return = <<1, 2>>
    /\ upper_levels[1].returned # <<>>
    /\ upper_levels[2].returned # <<>>
    /\ sim_stats.misses["LOAD"] = 2
    /\ MSHR = <<>>

\* C10: in the MSHR the entries that have returned come first, in the order
\* in which their responses were drained, and every fill from the MSHR is
\* of the block whose response was drained before those of all the others
\* that wait for their fill.
C10_FillsInArrivalOrder ==
  /\ \A i, j \in Idx(MSHR) :
       (i < j /\ MSHR[j].event_cycle # UINT64_MAX) => MSHR[i].event_cycle # UINT64_MAX
  /\ Len(arrival) = Cardinality({i \in Idx(MSHR) : MSHR[i].event_cycle # UINT64_MAX})
  /\ \A i \in Idx(arrival) : BlockOf(MSHR[i].address) = arrival[i]
  /\ \A k \in Idx(tick_log.ranks) : tick_log.ranks[k] = 1

\* an entry has been filled before one that was allocated earlier, whose
\* response has not arrived
C10_Witness ==
  /\ tick_log.ranks = <<1>>
  /\ Len(MSHR) = 1
  /\ MSHR[1].cycle_enqueued < tick_log.fills[1].entry.cycle_enqueued

\* the tag checks of a tick that hit a block whose prefetch bit was set,
\* for a packet that is not a prefetch of this cache
useful_hits(log) ==
  {k \in Idx(log.tags) :
     log.tags[k].hit /\ log.tags[k].before.prefetch /\ ~log.tags[k].pkt.prefetch_from_this}

\* the misses of a tick that were merged into the MSHR entry of a prefetch
\* of this cache and were not prefetches
promotions(log) ==
  {k \in Idx(log.merges) :
     /\ log.merges[k].entry.type = "PREFETCH" /\ log.merges[k].entry.prefetch_from_this
     /\ log.merges[k].pkt.type # "PREFETCH"}

\* C5: in every tick, every tag check that hits found the block in the
\* cache; pf_useful grows by one for each hit of a packet that is not a
\* local prefetch on a block whose prefetch bit is set (and for each
\* promotion), and by nothing else; such a hit leaves the prefetch bit of
\* the block clear, so that a further access does not count again; a tick
\* leaves pf_issued as it was; and pf_useful never exceeds pf_issued.
C5_UsefulCountedOnce ==
  [][/\ sim_stats'.pf_useful <= sim_stats'.pf_issued
     /\ (current_cycle' # current_cycle) =>
          /\ sim_stats'.pf_issued = sim_stats.pf_issued
          /\ sim_stats'.pf_useful =
               sim_stats.pf_useful + Cardinality(useful_hits(tick_log'))
                 + Cardinality(promotions(tick_log'))
          /\ \A k \in Idx(tick_log'.tags) :
               tick_log'.tags[k].hit =>
                 /\ tick_log'.tags[k].before.valid
                 /\ BlockOf(tick_log'.tags[k].before.address)
                      = BlockOf(tick_log'.tags[k].pkt.address)
          /\ \A k \in useful_hits(tick_log') :
               \A st \in Sets, w \in Ways :
                 (/\ block'[st][w].valid
                  /\ BlockOf(block'[st][w].address) = BlockOf(tick_log'.tags[k].pkt.address))
                   => ~block'[st][w].prefetch]_vars

\* after the one prefetch was filled, a read has hit and counted, and the
\* read of the last tick has hit the block with its prefetch bit clear
C5_Witness ==
  /\ sim_stats.pf_issued = 1
  /\ sim_stats.pf_fill = 1
  /\ sim_stats.pf_useful = 1
  /\ sim_stats.hits["LOAD"] = 2
  /\ \E k \in Idx(tick_log.tags) :
       /\ tick_log.tags[k].hit
       /\ tick_log.tags[k].pkt.type = "LOAD"
       /\ tick_log.tags[k].pkt.address = 0
       /\ ~tick_log.tags[k].before.prefetch

\* C6: a call of prefetch_line that finds room in the internal PQ is
\* accepted: it adds one entry and raises pf_issued by one; and in a tick
\* pf_useful grows by no more than the number of tag checks and merged
\* misses of packets that are not prefetches of this cache: a local
\* prefetch that hits a prefetched block counts nothing.
C6_DuplicatePrefetchNotUseful ==
  [][/\ (sim_stats'.pf_requested # sim_stats.pf_requested /\ Len(internal_PQ) < PQ_SIZE) =>
          /\ sim_stats'.pf_issued = sim_stats.pf_issued + 1
          /\ Len(internal_PQ') = Len(internal_PQ) + 1
          /\ internal_PQ'[Len(internal_PQ')].prefetch_from_this
          /\ sim_stats'.pf_useful = sim_stats.pf_useful
     /\ (current_cycle' # current_cycle) =>
          sim_stats'.pf_useful - sim_stats.pf_useful
            <= Cardinality({k \in Idx(tick_log'.tags) :
                              ~tick_log'.tags[k].pkt.prefetch_from_this})
                 + Cardinality({k \in Idx(tick_log'.merges) :
                                  ~tick_log'.merges[k].pkt.prefetch_from_this})]_vars

\* the second prefetch of the block has hit it, its prefetch bit still set
C6_Witness ==
  /\ sim_stats.pf_issued = 2
  /\ sim_stats.pf_fill = 1
  /\ sim_stats.pf_useful = 0
  /\ \E k \in Idx(tick_log.tags) :
       /\ tick_log.tags[k].hit
       /\ tick_log.tags[k].pkt.prefetch_from_this
       /\ tick_log.tags[k].before.prefetch

\* C7: a read issued, outside warmup, into an idle cache that holds its
\* block, and alone until it is answered, is stamped event_cycle = issue
\* time + HIT_LATENCY at its admission, is not waiting after the cycle
\* issue time + HIT_LATENCY + 1, and that is its return time.
C7_HitLatency ==
  \A i \in Idx(packets) :
    (/\ packets[i].kind = "LOAD" /\ packets[i].solo /\ packets[i].held
     /\ ~packets[i].warm /\ MAX_TAG >= 1)
      => /\ IF packets[i].return_time = NotReturned
              THEN current_cycle <= packets[i].issue_time + HIT_LATENCY + 1
              ELSE packets[i].return_time = packets[i].issue_time + HIT_LATENCY + 1
         /\ \A k \in Idx(inflight_tag_check) :
              inflight_tag_check[k].instr_depend_on_me = <<packets[i].id>>
                => inflight_tag_check[k].event_cycle
                     = packets[i].issue_time + HIT_LATENCY

\* such a read has been answered
C7_Witness ==
  \E i \in Idx(packets) :
    /\ packets[i].kind = "LOAD" /\ packets[i].solo /\ packets[i].held
    /\ ~packets[i].warm
    /\ packets[i].return_time = packets[i].issue_time + HIT_LATENCY + 1

\* the accepted prefetch i found a cache that did not hold its block and
\* held nothing about it, no request for the block was issued since, and
\* the replacement policy has not made its fill bypass the cache
lone_prefetch(i) ==
  /\ i \in Idx(packets)
  /\ packets[i].kind = "PREFETCH"
  /\ ~packets[i].held /\ packets[i].quiet /\ ~packets[i].bypassed

\* the fills of a tick for the block of an address
fills_of(log, address) ==
  {k \in Idx(log.fills) : BlockOf(log.fills[k].entry.address) = BlockOf(address)}

\* C8 as stated: once the block of an accepted prefetch, which the cache did
\* not hold at the call, has been filled, pf_fill has grown by one or more.
C8_AsStated ==
  \A i \in Idx(packets) :
    (/\ packets[i].kind = "PREFETCH" /\ ~packets[i].held
     /\ packets[i].return_time # NotReturned)
      => sim_stats.pf_fill >= packets[i].pf_fill + 1

\* C8, amended: an accepted prefetch_line raises pf_issued by one and a tick
\* leaves it; pf_fill grows in a tick by the number of fills of PREFETCH
\* entries that write a way; a prefetch accepted into a cache that neither
\* holds its block nor anything about it, with no other request for the
\* block, has one fill, of a PREFETCH entry, and none after it; and under
\* a policy that does not bypass, it is eventually filled.
C8_PrefetchFilledOnce ==
  /\ [][/\ Len(internal_PQ') > Len(internal_PQ) =>
             sim_stats'.pf_issued = sim_stats.pf_issued + 1
        /\ (current_cycle' # current_cycle) =>
             /\ sim_stats'.pf_issued = sim_stats.pf_issued
             /\ sim_stats'.pf_fill =
                  sim_stats.pf_fill
                    + Cardinality({k \in Idx(tick_log'.fills) :
                                     /\ tick_log'.fills[k].wrote
                                     /\ tick_log'.fills[k].entry.type = "PREFETCH"})
             /\ \A i \in Idx(packets) :
                  lone_prefetch(i) =>
                    IF packets[i].return_time = NotReturned
                      THEN /\ Cardinality(fills_of(tick_log', packets[i].address)) <= 1
                           /\ \A k \in fills_of(tick_log', packets[i].address) :
                                tick_log'.fills[k].entry.type = "PREFETCH"
                      ELSE fills_of(tick_log', packets[i].address) = {}]_vars
  /\ \A i \in 1 .. DrainCfg.requests :
       (lone_prefetch(i) /\ packets[i].return_time = NotReturned)
         ~> ~(lone_prefetch(i) /\ packets[i].return_time = NotReturned)

\* such a prefetch has been filled, and pf_issued and pf_fill are one
C8_Witness ==
  /\ lone_prefetch(1)
  /\ packets[1].return_time # NotReturned
  /\ sim_stats.pf_issued = 1
  /\ sim_stats.pf_fill = 1
  /\ \E st \in Sets, w \in Ways : block[st][w].valid /\ block[st][w].prefetch

\* reads of three blocks from two upper levels and a prefetch that does not
\* fill this level, two tag checks in a cycle, and a lower level whose RQ
\* and PQ hold one request each
RefuseCfg ==
  [BaseCfg EXCEPT !.requests = 2,
                  !.MAX_TAG = 2, !.LOWER_SIZE = [RQ |-> 1, WQ |-> 1, PQ |-> 1],
                  !.loads = {<<1, 0>>, <<2, 2>>, <<1, 4>>},
                  !.prefetches = {<<2, FALSE>>}]

InitRefuse == InitCache(RefuseCfg)
SpecRefuse == InitRefuse /\ [][Next]_vars

\* reads of two blocks and prefetches of one of them, to be filled here or
\* not, with two tag checks in a cycle
MatchCfg ==
  [BaseCfg EXCEPT !.requests = 2, !.MAX_TAG = 2,
                  !.loads = {<<1, 0>>, <<2, 2>>},
                  !.prefetches = {<<2, TRUE>>, <<2, FALSE>>}]

InitMatch == InitCache(MatchCfg)
SpecMatch == InitMatch /\ [][Next]_vars

\* a cache that checks no tag in a cycle: a write and a read of one block
\* from one upper level, and a read of another block from the other
NoTagCfg ==
  [BaseCfg EXCEPT !.requests = 3, !.MAX_TAG = 0,
                  !.loads = {<<1, 0>>, <<2, 2>>}, !.writes = {<<1, 0>>},
                  !.prefetches = {<<2, TRUE>>}]

\* a cache that fills nothing in a cycle
NoFillCfg ==
  [BaseCfg EXCEPT !.requests = 2, !.MAX_FILL = 0,
                  !.loads = {<<1, 0>>, <<2, 2>>}, !.writes = {<<1, 4>>}]

\* a cache without MSHR
NoMshrCfg ==
  [BaseCfg EXCEPT !.requests = 2, !.MSHR_SIZE = 0,
                  !.loads = {<<1, 0>>, <<2, 2>>}, !.writes = {<<1, 4>>},
                  !.prefetches = {<<2, TRUE>>}]

InitZero == \E c \in {NoTagCfg, NoFillCfg, NoMshrCfg} : InitCache(c)
SpecZero == InitZero /\ [][Next]_vars

\* a call of prefetch_line: a request that is not an upper level's
prefetch_call == nreq' = nreq + 1 /\ upper_levels' = upper_levels

\* C11 as stated: a call of prefetch_line that finds PQ_SIZE entries in the
\* internal PQ leaves the internal PQ and the prefetch counters as they were.
C11_AsStated ==
  [][(prefetch_call /\ Len(internal_PQ) >= PQ_SIZE)
       => /\ internal_PQ' = internal_PQ
          /\ sim_stats' = sim_stats]_vars

\* C11, amended: such a call is refused (no prefetch is recorded as issued)
\* and leaves the internal PQ, the blocks, the MSHR, the queues and every
\* counter as they were, except pf_requested, which it raises by one.
C11_FullPqRefuses ==
  [][(prefetch_call /\ Len(internal_PQ) >= PQ_SIZE)
       => /\ internal_PQ' = internal_PQ
          /\ Len(packets') = Len(packets)
          /\ sim_stats' = [sim_stats EXCEPT !.pf_requested = @ + 1]
          /\ UNCHANGED <<block, MSHR, inflight_writes, inflight_tag_check,
                         translation_stash, lower_level, lower_translate>>]_vars

\* a call has been refused by a full internal PQ
C11_Witness ==
  /\ Len(internal_PQ) = PQ_SIZE
  /\ sim_stats.pf_requested = 2
  /\ sim_stats.pf_issued = 1

\* the sum of a counter over the access types
total(counter) ==
  counter["LOAD"] + counter["RFO"] + counter["PREFETCH"] + counter["WRITE"]
    + counter["TRANSLATION"]

hook_calls(log, name) == {h \in Idx(log.hooks) : log.hooks[h].hook = name}

\* what an aborted fill leaves, whatever the hooks: the lower WQ is full;
\* the victim is valid and dirty, and is in the cache as it was unless a
\* tag check of the tick has hit it; the entry is still the head of its
\* queue; none of its requesters has its response; and pf_useless and
\* pf_fill count the fills alone
fill_aborted(lg, blk, mshr, writes, lower, uls, stats, stats_before) ==
  /\ \A k \in Idx(lg.fill_refused) :
       LET r == lg.fill_refused[k]
           same(q) == /\ q # <<>>
                      /\ BlockOf(Head(q).address) = BlockOf(r.entry.address)
                      /\ Head(q).event_cycle = r.entry.event_cycle
       IN  /\ r.victim.valid /\ r.victim.dirty
           /\ Len(lower.WQ) = cfg.LOWER_SIZE.WQ
           /\ blk[r.set][r.way].valid
           /\ blk[r.set][r.way].address = r.victim.address
           /\ blk[r.set][r.way].data = r.victim.data
           /\ (\A n \in Idx(lg.tags) :
                 ~(lg.tags[n].hit /\ lg.tags[n].before = r.victim))
                => blk[r.set][r.way] = r.victim
           /\ same(mshr) \/ same(writes)
           /\ \A n \in Idx(lg.fills) : lg.fills[n].entry # r.entry
           /\ \A u \in Range(r.entry.to_return) :
                \A n \in Idx(uls[u].returned) :
                  ~(/\ uls[u].returned[n].address = r.entry.address
                    /\ uls[u].returned[n].instr_depend_on_me
                         = r.entry.instr_depend_on_me)
  /\ stats.pf_fill = stats_before.pf_fill
       + Cardinality({n \in Idx(lg.fills) :
                        lg.fills[n].wrote /\ lg.fills[n].entry.type = "PREFETCH"})
  /\ stats.pf_useless = stats_before.pf_useless
       + Cardinality({n \in Idx(lg.fills) :
                        lg.fills[n].wrote /\ lg.fills[n].victim.valid
                          /\ lg.fills[n].victim.prefetch})

\* C13 as stated: a fill whose writeback the lower WQ refuses leaves the
\* victim, the responses and the statistics alone and stays queued, and no
\* hook of the replacement policy or of the prefetcher is called for it.
C13_AsStated ==
  [][(current_cycle' # current_cycle) =>
       /\ fill_aborted(tick_log', block', MSHR', inflight_writes', lower_level',
                       upper_levels', sim_stats', sim_stats)
       /\ \A k \in Idx(tick_log'.fill_refused) :
            \A h \in hook_calls(tick_log', "find_victim")
                      \cup hook_calls(tick_log', "prefetcher_cache_fill") :
              tick_log'.hooks[h].address # tick_log'.fill_refused[k].entry.address]_vars

\* C13, amended: such a fill leaves the victim, the responses and the
\* statistics alone and stays queued; impl_prefetcher_cache_fill and
\* impl_update_replacement_state are not called for it (they are called
\* once for each fill, and the latter once for each hit), but
\* impl_find_victim has been called to name the victim; and the next tick
\* tries a fill again before any other.
C13_RefusedWritebackAborts ==
  [][(current_cycle' # current_cycle) =>
       /\ fill_aborted(tick_log', block', MSHR', inflight_writes', lower_level',
                       upper_levels', sim_stats', sim_stats)
       /\ Cardinality(hook_calls(tick_log', "prefetcher_cache_fill"))
            = Len(tick_log'.fills)
       /\ Cardinality(hook_calls(tick_log', "update_replacement_state"))
            = Len(tick_log'.fills)
                + Cardinality({n \in Idx(tick_log'.tags) : tick_log'.tags[n].hit})
       /\ \A k \in Idx(tick_log'.fill_refused) :
            \E h \in hook_calls(tick_log', "find_victim") :
              tick_log'.hooks[h].address = tick_log'.fill_refused[k].entry.address
       /\ tick_log.fill_refused # <<>> =>
            tick_log'.fills # <<>> \/ tick_log'.fill_refused # <<>>]_vars

\* a fill was aborted in the last tick: its victim is in the cache, dirty,
\* and its entry is still queued
C13_Witness ==
  \E k \in Idx(tick_log.fill_refused) :
    /\ block[tick_log.fill_refused[k].set][tick_log.fill_refused[k].way]
         = tick_log.fill_refused[k].victim
    /\ tick_log.fill_refused[k].victim.dirty
    /\ tick_log.fills = <<>>
    /\ Len(lower_level.WQ) = cfg.LOWER_SIZE.WQ

\* C14: the lower level answering each request that asks for a response
\* once, and no other, every response that finish_packet drains finds the
\* MSHR entry of its block: none is unmatched.
C14_ResponsesMatch ==
  /\ tick_log.unmatched = <<>>
  /\ \A k \in Idx(lower_level.returned) :
       mshr_of(BlockOf(lower_level.returned[k].address)) # {}

\* a prefetch that is not to be filled here was forwarded, leaving no MSHR
\* entry, and the response of a prefetch that is has found its entry
C14_Witness ==
  /\ sim_stats.misses["PREFETCH"] = 2
  /\ tick_log.finished # <<>>
  /\ \E i \in Idx(MSHR) :
       MSHR[i].type = "PREFETCH" /\ MSHR[i].event_cycle # UINT64_MAX

\* the responses in the returned queues of the upper levels
returned_responses ==
  UNION {{[ul |-> u, packet |-> upper_levels[u].returned[n]] :
            n \in Idx(upper_levels[u].returned)} : u \in Uppers}

\* nothing was admitted to a tag check, and no check has hit or missed
no_tag_check ==
  /\ inflight_tag_check = <<>>
  /\ tick_log.tags = <<>>
  /\ total(sim_stats.hits) = 0 /\ total(sim_stats.misses) = 0
  /\ MSHR = <<>> /\ inflight_writes = <<>>
  /\ lower_level.RQ = <<>> /\ lower_level.PQ = <<>> /\ lower_level.WQ = <<>>

\* no entry of the MSHR or of inflight_writes was filled
no_fill ==
  /\ tick_log.fills = <<>> /\ tick_log.mshr_filled = 0
  /\ \A st \in Sets, w \in Ways : ~block[st][w].valid
  /\ sim_stats.pf_fill = 0
  /\ lower_level.WQ = <<>>

\* the entries of a queue stay in it, whatever their order
entries_stay(q, after) ==
  /\ Len(after) >= Len(q)
  /\ \A i \in Idx(q) :
       \E j \in Idx(after) : BlockOf(after[j].address) = BlockOf(q[i].address)

\* C15 as stated: with MAX_TAG = 0 nothing is admitted to a tag check, no
\* check hits or misses and no response is produced; with MAX_FILL = 0
\* nothing is filled.
C15_AsStated ==
  /\ cfg.MAX_TAG = 0 => (no_tag_check /\ returned_responses = {})
  /\ cfg.MAX_FILL = 0 => no_fill

\* C15, amended: with MAX_TAG = 0 nothing is admitted to a tag check and no
\* check hits or misses, so that the only responses are those the collision
\* pass forwards to a read from a queued write of its block; with
\* MAX_FILL = 0 no block is written, nothing is filled, and the entries of
\* the MSHR and of inflight_writes, returned or not, stay where they are.
C15_ZeroBandwidth ==
  /\ [](cfg.MAX_TAG = 0 =>
          /\ no_tag_check
          /\ \A r \in returned_responses :
               \E n \in Idx(upper_levels[r.ul].WQ) :
                 /\ BlockOf(upper_levels[r.ul].WQ[n].address) = BlockOf(r.packet.address)
                 /\ upper_levels[r.ul].WQ[n].data = r.packet.data)
  /\ [](cfg.MAX_FILL = 0 => no_fill)
  /\ [][cfg.MAX_FILL = 0 =>
          /\ entries_stay(MSHR, MSHR')
          /\ entries_stay(inflight_writes, inflight_writes')]_vars

\* with MAX_TAG = 0, cycles after the warm-up, a read waits in the RQ of an
\* upper level, and another was answered from the write queued before it
C15_Witness ==
  /\ cfg.MAX_TAG = 0 /\ ~warmup /\ current_cycle >= 3
  /\ upper_levels[2].RQ # <<>>
  /\ upper_levels[1].RQ = <<>> /\ upper_levels[1].WQ # <<>>
  /\ \E i \in Idx(packets) :
       /\ packets[i].kind = "LOAD"
       /\ packets[i].return_time # NotReturned

\* C16: with MSHR_SIZE = 0 every miss that handle_miss is given is refused:
\* no request is forwarded, the MSHR, the lower RQ and PQ stay empty, and
\* no miss is counted but those of handle_write.
C16_NoMshrNoMiss ==
  cfg.MSHR_SIZE = 0 =>
    /\ MSHR = <<>>
    /\ tick_log.forwards = <<>> /\ tick_log.merges = <<>>
    /\ lower_level.RQ = <<>> /\ lower_level.PQ = <<>>
    /\ \A type \in {"LOAD", "RFO", "PREFETCH", "TRANSLATION"} :
         sim_stats.misses[type] = 0
    /\ \A n \in Idx(tick_log.tags) :
         (~tick_log.tags[n].hit /\ tick_log.tags[n].pkt.type # "WRITE")
           => tick_log.refused = <<tick_log.tags[n].pkt>>

\* a read has missed in the last tick and was refused, after the warm-up
C16_Witness ==
  /\ cfg.MSHR_SIZE = 0 /\ ~warmup
  /\ \E n \in Idx(tick_log.refused) : tick_log.refused[n].type = "LOAD"
  /\ inflight_tag_check # <<>>

(***************************************************************************)
(* The handlers of MEMORY_CONTROLLER and DRAM_CHANNEL.  Each takes the     *)
(* controller's state as a record d and returns the state it leaves.       *)
(***************************************************************************)
\* push a response to each queue of to_return
dram_respond(d, pkt, data) ==
  [d EXCEPT !.ul.returned =
     @ \o [k \in 1 .. Len(pkt.to_return) |->
             Response(pkt.address, pkt.v_address, data, pkt.instr_depend_on_me)]]

\* the first empty slot of a queue, or its size + 1
empty_slot(q) ==
  LET taken(x) == x.has_value
      free(x) == ~taken(x)
  IN  FindIf(q, free)

\* MEMORY_CONTROLLER::add_rq
dram_add_rq(d, packet, now) ==
  IF empty_slot(d.RQ) <= Len(d.RQ)
    THEN [ok |-> TRUE,
          d |-> [d EXCEPT
                  !.RQ[empty_slot(d.RQ)] =
                     dram_request(packet, IF packet.response_requested THEN <<1>> ELSE <<>>, now),
                  !.log.added = Append(@, [q |-> "RQ", i |-> empty_slot(d.RQ),
                                           packet |-> packet])]]
    ELSE [ok |-> FALSE, d |-> d]

\* MEMORY_CONTROLLER::add_wq
dram_add_wq(d, packet, now) ==
  IF empty_slot(d.WQ) <= Len(d.WQ)
    THEN [ok |-> TRUE,
          d |-> [d EXCEPT
                  !.WQ[empty_slot(d.WQ)] = dram_request(packet, <<>>, now),
                  !.log.added = Append(@, [q |-> "WQ", i |-> empty_slot(d.WQ),
                                           packet |-> packet])]]
    ELSE [ok |-> FALSE, d |-> [d EXCEPT !.sim_stats.WQ_FULL = @ + 1]]

\* champsim::get_span_p over a queue of the upper level with add_rq or
\* add_wq as the predicate, and the erase that follows
RECURSIVE initiate_queue(_, _, _)
initiate_added(r, d, q, now) ==
  IF r.ok THEN initiate_queue([r.d EXCEPT !.ul[q] = Tail(@)], q, now)
  ELSE r.d

initiate_queue(d, q, now) ==
  IF d.ul[q] = <<>> THEN d
  ELSE initiate_added(IF q = "WQ" THEN dram_add_wq(d, Head(d.ul[q]), now)
                                  ELSE dram_add_rq(d, Head(d.ul[q]), now),
                      d, q, now)

\* MEMORY_CONTROLLER::initiate_requests
initiate_requests(d, now) ==
  initiate_queue(initiate_queue(initiate_queue(d, "RQ", now), "PQ", now), "WQ", now)

\* the warm-up branch of DRAM_CHANNEL::operate
RECURSIVE warmup_answers(_, _)
warmup_answers(d, i) ==
  IF i > Len(d.RQ) THEN d
  ELSE IF d.RQ[i].has_value
    THEN warmup_answers([dram_respond(d, d.RQ[i], d.RQ[i].data) EXCEPT !.RQ[i] = nullopt],
                        i + 1)
  ELSE warmup_answers(d, i + 1)

warmup_drain(d) ==
  IF d.warmup
    THEN [warmup_answers(d, 1) EXCEPT !.WQ = [i \in 1 .. Len(@) |-> nullopt]]
    ELSE d

\* the slot of q that std::find_if, with the collision check of address as
\* its predicate, finds in [from, to), or to
find_block(q, from, to, address) ==
  LET checker(j) == q[j].has_value /\ dram_block(q[j].address) = dram_block(address)
  IN  IF \E j \in from .. (to - 1) : checker(j)
        THEN CHOOSE j \in from .. (to - 1) :
               checker(j) /\ \A k \in from .. (j - 1) : ~checker(k)
        ELSE to

MutWriteCollisionForwardOnly(q, wq_it) ==
  IF find_block(q, 1, wq_it, q[wq_it].address) = wq_it
    THEN Len(q) + 1
    ELSE find_block(q, 1, wq_it, q[wq_it].address)

\* the slot check_write_collision finds for the entry at wq_it: the forward
\* check and, if it fails, the backward check
write_collision(q, wq_it) ==
  IF find_block(q, 1, wq_it, q[wq_it].address) = wq_it
    THEN find_block(q, wq_it + 1, Len(q) + 1, q[wq_it].address)
    ELSE find_block(q, 1, wq_it, q[wq_it].address)

\* DRAM_CHANNEL::check_write_collision, from the slot wq_it on
RECURSIVE check_write_collision(_, _)
check_write_collision(d, wq_it) ==
  IF wq_it > Len(d.WQ) THEN d
  ELSE IF d.WQ[wq_it].has_value /\ ~d.WQ[wq_it].forward_checked
    THEN IF write_collision(d.WQ, wq_it) # Len(d.WQ) + 1
           THEN check_write_collision(
                  [d EXCEPT !.WQ[wq_it] = nullopt,
                            !.log.dropped =
                               Append(@, [i |-> wq_it, pkt |-> d.WQ[wq_it],
                                          found |-> write_collision(d.WQ, wq_it)])],
                  wq_it + 1)
           ELSE check_write_collision([d EXCEPT !.WQ[wq_it].forward_checked = TRUE],
                                      wq_it + 1)
  ELSE check_write_collision(d, wq_it + 1)

MutReadForwardOwnData(rq, wq) == rq.data

\* the data of the response to a read that a queued write answers
forwarded_data(rq, wq) == wq.data

\* check_read_collision's answer from the WQ entry at wq_it
read_forward(d, rq_it, wq_it) ==
  [dram_respond(d, d.RQ[rq_it], forwarded_data(d.RQ[rq_it], d.WQ[wq_it])) EXCEPT
     !.RQ[rq_it] = nullopt,
     !.log.forwarded = Append(@, [i |-> rq_it, pkt |-> d.RQ[rq_it], wq |-> d.WQ[wq_it]])]

MutMergeKeepsReturn(d, rq_it, found) ==
  [d EXCEPT
     !.RQ[found].instr_depend_on_me = set_union(@, d.RQ[rq_it].instr_depend_on_me),
     !.RQ[rq_it] = nullopt,
     !.log.merged = Append(@, [i |-> rq_it, pkt |-> d.RQ[rq_it], found |-> found])]

\* check_read_collision's merge into the RQ entry at found
read_merge(d, rq_it, found) ==
  [d EXCEPT
     !.RQ[found].instr_depend_on_me = set_union(@, d.RQ[rq_it].instr_depend_on_me),
     !.RQ[found].to_return = set_union(@, d.RQ[rq_it].to_return),
     !.RQ[rq_it] = nullopt,
     !.log.merged = Append(@, [i |-> rq_it, pkt |-> d.RQ[rq_it], found |-> found])]

\* the body of check_read_collision's loop for an entry not yet checked
read_collision(d, rq_it) ==
  IF find_block(d.WQ, 1, Len(d.WQ) + 1, d.RQ[rq_it].address) # Len(d.WQ) + 1
    THEN read_forward(d, rq_it, find_block(d.WQ, 1, Len(d.WQ) + 1, d.RQ[rq_it].address))
  ELSE IF find_block(d.RQ, 1, rq_it, d.RQ[rq_it].address) # rq_it
    THEN read_merge(d, rq_it, find_block(d.RQ, 1, rq_it, d.RQ[rq_it].address))
  ELSE IF find_block(d.RQ, rq_it + 1, Len(d.RQ) + 1, d.RQ[rq_it].address) # Len(d.RQ) + 1
    THEN read_merge(d, rq_it,
                    find_block(d.RQ, rq_it + 1, Len(d.RQ) + 1, d.RQ[rq_it].address))
  ELSE [d EXCEPT !.RQ[rq_it].forward_checked = TRUE]

\* DRAM_CHANNEL::check_read_collision, from the slot rq_it on
RECURSIVE check_read_collision(_, _)
check_read_collision(d, rq_it) ==
  IF rq_it > Len(d.RQ) THEN d
  ELSE IF d.RQ[rq_it].has_value /\ ~d.RQ[rq_it].forward_checked
    THEN check_read_collision(read_collision(d, rq_it), rq_it + 1)
  ELSE check_read_collision(d, rq_it + 1)

\* the request a bank holds (BANK_REQUEST::pkt, an iterator into RQ or WQ)
bank_pkt(d, b) == d[d.bank_request[b].pkt.q][d.bank_request[b].pkt.i]

\* DRAM_CHANNEL::finish_dbus_request
finish_dbus_request(d, now) ==
  IF d.active_request # NoBank /\ d.bank_request[d.active_request].event_cycle <= now
    THEN [dram_respond(d, bank_pkt(d, d.active_request), bank_pkt(d, d.active_request).data)
            EXCEPT
              !.bank_request[d.active_request].valid = FALSE,
              ![d.bank_request[d.active_request].pkt.q][d.bank_request[d.active_request].pkt.i]
                 = nullopt,
              !.active_request = NoBank,
              !.log.finished = Append(@, [bank |-> d.active_request,
                                          slot |-> d.bank_request[d.active_request].pkt,
                                          pkt |-> bank_pkt(d, d.active_request)])]
    ELSE d

\* the number of occupied slots of a queue
occupancy(q) == Cardinality({i \in 1 .. Len(q) : q[i].has_value})

MutDrainAllWrites(write_mode, wq_occu, rq_occu) ==
  \/ ~write_mode /\ (wq_occu >= DRAM_WRITE_HIGH_WM \/ (rq_occu = 0 /\ wq_occu > 0))
  \/ write_mode /\ wq_occu = 0

\* whether swap_write_mode changes the mode
queues_unbalanced(write_mode, wq_occu, rq_occu) ==
  \/ ~write_mode /\ (wq_occu >= DRAM_WRITE_HIGH_WM \/ (rq_occu = 0 /\ wq_occu > 0))
  \/ write_mode /\ (wq_occu = 0 \/ (rq_occu > 0 /\ wq_occu < DRAM_WRITE_LOW_WM))

MutResetActiveToo(d) == {b \in Banks : d.bank_request[b].valid}

\* the banks swap_write_mode resets: valid, and not on the data bus
reset_banks(d) == {b \in Banks : b # d.active_request /\ d.bank_request[b].valid}

\* the queue q once the requests of the reset banks are unscheduled
unschedule(d, q, now) ==
  [i \in 1 .. Len(d[q]) |->
     IF \E b \in reset_banks(d) : d.bank_request[b].pkt = [q |-> q, i |-> i]
       THEN [d[q][i] EXCEPT !.scheduled = FALSE, !.event_cycle = now]
       ELSE d[q][i]]

\* DRAM_CHANNEL::swap_write_mode
swap_write_mode(d, now) ==
  IF queues_unbalanced(d.write_mode, occupancy(d.WQ), occupancy(d.RQ))
    THEN [d EXCEPT
            !.bank_request =
               [b \in Banks |->
                  IF b \in reset_banks(d)
                    THEN [@[b] EXCEPT
                            !.open_row = IF d.bank_request[b].event_cycle < now + tCAS
                                           THEN NoRow ELSE @,
                            !.valid = FALSE]
                    ELSE @[b]],
            !.RQ = unschedule(d, "RQ", now),
            !.WQ = unschedule(d, "WQ", now),
            !.dbus_cycle_available =
               IF d.active_request # NoBank
                 THEN d.bank_request[d.active_request].event_cycle
                        + DRAM_DBUS_TURN_AROUND_TIME
                 ELSE now + DRAM_DBUS_TURN_AROUND_TIME,
            !.write_mode = ~@,
            !.log.swapped = TRUE]
    ELSE d

\* whether a refresh is due at a cycle
refresh_due(now) == now % DramCfg.refresh_period = 1

MutRefreshKeepsRow(bank, due, now) ==
  IF (bank.need_refresh \/ due) /\ ~bank.valid
    THEN [bank EXCEPT !.event_cycle = now + tCAS + tRCD, !.need_refresh = FALSE,
                      !.under_refresh = TRUE]
  ELSE IF bank.under_refresh /\ bank.event_cycle <= now
    THEN [bank EXCEPT !.need_refresh = @ \/ due, !.under_refresh = FALSE]
  ELSE [bank EXCEPT !.need_refresh = @ \/ due]

\* the body of schedule_refresh's loop for one bank
refresh_bank(bank, due, now) ==
  IF (bank.need_refresh \/ due) /\ ~bank.valid
    THEN [bank EXCEPT !.event_cycle = now + tCAS + tRCD, !.need_refresh = FALSE,
                      !.under_refresh = TRUE]
  ELSE IF bank.under_refresh /\ bank.event_cycle <= now
    THEN [bank EXCEPT !.need_refresh = @ \/ due, !.under_refresh = FALSE,
                      !.open_row = NoRow]
  ELSE [bank EXCEPT !.need_refresh = @ \/ due]

\* DRAM_CHANNEL::schedule_refresh
schedule_refresh(d, now) ==
  [d EXCEPT
     !.refresh_row = IF refresh_due(now)
                       THEN (IF @ + 8 >= DRAM_ROWS THEN 0 ELSE @ + 8)
                       ELSE @,
     !.sim_stats.refresh_cycles = IF refresh_due(now) THEN @ + 1 ELSE @,
     !.bank_request = [b \in Banks |-> refresh_bank(@[b], refresh_due(now), now)],
     !.log.refreshed =
        {b \in Banks :
           refresh_bank(d.bank_request[b], refresh_due(now), now).under_refresh
             # d.bank_request[b].under_refresh}]

\* populate_dbus's comparison of two banks
next_process(lhs, rhs) == ~rhs.valid \/ (lhs.valid /\ lhs.event_cycle < rhs.event_cycle)

\* std::min_element over bank_request with next_process
RECURSIVE min_bank(_, _, _)
min_bank(banks, smallest, it) ==
  IF it \notin Banks THEN smallest
  ELSE min_bank(banks, IF next_process(banks[it], banks[smallest]) THEN it ELSE smallest,
                it + 1)

\* the counter populate_dbus raises
row_buffer_counter(write_mode, row_buffer_hit) ==
  IF row_buffer_hit
    THEN (IF write_mode THEN "WQ_ROW_BUFFER_HIT" ELSE "RQ_ROW_BUFFER_HIT")
    ELSE (IF write_mode THEN "WQ_ROW_BUFFER_MISS" ELSE "RQ_ROW_BUFFER_MISS")

MutBusIgnoresTurnAround(d, iter_next_process, now) ==
  IF d.bank_request[iter_next_process].valid
       /\ d.bank_request[iter_next_process].event_cycle <= now
    THEN IF d.active_request = NoBank
           THEN [d EXCEPT
                   !.active_request = iter_next_process,
                   !.bank_request[iter_next_process].event_cycle = now + DRAM_DBUS_RETURN_TIME,
                   !.sim_stats =
                      [@ EXCEPT ![row_buffer_counter(d.write_mode,
                                    d.bank_request[iter_next_process].row_buffer_hit)] = @ + 1],
                   !.log.on_bus = Append(@, [bank |-> iter_next_process,
                                             slot |-> d.bank_request[iter_next_process].pkt,
                                             ready |-> d.bank_request[iter_next_process].event_cycle])]
           ELSE [d EXCEPT
                   !.sim_stats.dbus_cycle_congested =
                      @ + (IF d.active_request # NoBank
                             THEN d.bank_request[d.active_request].event_cycle - now
                             ELSE d.dbus_cycle_available - now),
                   !.sim_stats.dbus_count_congested = @ + 1]
    ELSE d

\* populate_dbus once the next bank is chosen
populate_dbus_at(d, iter_next_process, now) ==
  IF d.bank_request[iter_next_process].valid
       /\ d.bank_request[iter_next_process].event_cycle <= now
    THEN IF d.active_request = NoBank /\ d.dbus_cycle_available <= now
           THEN [d EXCEPT
                   !.active_request = iter_next_process,
                   !.bank_request[iter_next_process].event_cycle = now + DRAM_DBUS_RETURN_TIME,
                   !.sim_stats =
                      [@ EXCEPT ![row_buffer_counter(d.write_mode,
                                    d.bank_request[iter_next_process].row_buffer_hit)] = @ + 1],
                   !.log.on_bus = Append(@, [bank |-> iter_next_process,
                                             slot |-> d.bank_request[iter_next_process].pkt,
                                             ready |-> d.bank_request[iter_next_process].event_cycle])]
           ELSE [d EXCEPT
                   !.sim_stats.dbus_cycle_congested =
                      @ + (IF d.active_request # NoBank
                             THEN d.bank_request[d.active_request].event_cycle - now
                             ELSE d.dbus_cycle_available - now),
                   !.sim_stats.dbus_count_congested = @ + 1]
    ELSE d

\* DRAM_CHANNEL::populate_dbus
populate_dbus(d, now) == populate_dbus_at(d, min_bank(d.bank_request, 0, 1), now)

\* the bank of an address
bank_index(address) == get_rank(address) * DRAM_BANKS + get_bank(address)

MutReadyUnderRefresh(bank) == ~bank.valid

\* whether a bank can take a request
bank_ready(bank) == ~bank.valid /\ ~bank.under_refresh

\* schedule_packet's comparison of two slots
next_schedule(banks, lhs, rhs) ==
  IF ~(rhs.has_value /\ ~rhs.scheduled) THEN TRUE
  ELSE IF ~(lhs.has_value /\ ~lhs.scheduled) THEN FALSE
  ELSE IF bank_ready(banks[bank_index(rhs.address)]) = bank_ready(banks[bank_index(lhs.address)])
    THEN lhs.event_cycle < rhs.event_cycle
  ELSE bank_ready(banks[bank_index(lhs.address)])

\* std::min_element over a queue with next_schedule
RECURSIVE min_slot(_, _, _, _)
min_slot(banks, q, smallest, it) ==
  IF it > Len(q) THEN smallest
  ELSE min_slot(banks, q, IF next_schedule(banks, q[it], q[smallest]) THEN it ELSE smallest,
                it + 1)

\* DRAM_CHANNEL::schedule_packet
schedule_packet(d) ==
  [q |-> IF d.write_mode THEN "WQ" ELSE "RQ",
   i |-> min_slot(d.bank_request, IF d.write_mode THEN d.WQ ELSE d.RQ, 1, 2)]

MutRowChargeNoPrecharge(open_row, op_row) == IF open_row = op_row THEN 0 ELSE tRCD

\* what service_packet adds to tCAS: nothing for a row-buffer hit, and
\* row_charge_delay otherwise
row_delay(open_row, op_row) ==
  IF open_row # NoRow /\ open_row = op_row THEN 0
  ELSE IF open_row # NoRow THEN tRP + tRCD
  ELSE tRCD

\* service_packet's assignment to the bank and the packet
service_bank(d, pkt, op_idx, op_row, now) ==
  [d EXCEPT
     !.bank_request[op_idx] =
        [valid |-> TRUE,
         row_buffer_hit |-> (d.bank_request[op_idx].open_row # NoRow
                               /\ d.bank_request[op_idx].open_row = op_row),
         need_refresh |-> FALSE, under_refresh |-> FALSE, open_row |-> op_row,
         event_cycle |-> now + tCAS + row_delay(d.bank_request[op_idx].open_row, op_row),
         pkt |-> pkt],
     ![pkt.q][pkt.i].scheduled = TRUE,
     ![pkt.q][pkt.i].event_cycle = UINT64_MAX,
     !.log.serviced = Append(@, [slot |-> pkt, bank |-> op_idx, row |-> op_row,
                                 address |-> d[pkt.q][pkt.i].address,
                                 before |-> d.bank_request[op_idx]])]

\* DRAM_CHANNEL::service_packet
service_packet(d, pkt, now) ==
  IF d[pkt.q][pkt.i].has_value /\ d[pkt.q][pkt.i].event_cycle <= now
       /\ bank_ready(d.bank_request[bank_index(d[pkt.q][pkt.i].address)])
    THEN service_bank(d, pkt, bank_index(d[pkt.q][pkt.i].address),
                      get_row(d[pkt.q][pkt.i].address), now)
    ELSE d

\* the end of DRAM_CHANNEL::operate
schedule_and_service(d, now) == service_packet(d, schedule_packet(d), now)

\* DRAM_CHANNEL::operate
dram_operate(d, now) ==
  schedule_and_service(
    populate_dbus(
      schedule_refresh(
        swap_write_mode(
          finish_dbus_request(
            check_read_collision(check_write_collision(warmup_drain(d), 1), 1),
            now),
          now),
        now),
      now),
    now)

\* MEMORY_CONTROLLER::operate
controller_operate(d, now) == dram_operate(initiate_requests(d, now), now)

(***************************************************************************)
(* The memory controller under test: an upper level that sends reads,      *)
(* prefetches and writes, and reads its responses.                         *)
(***************************************************************************)
DramMaxCycle == 10
DramMaxReq == 2

\* the requests the upper level may send: the queue, the address and
\* whether a response is asked for.  Addresses 0 and 1 are one block; 0, 4
\* and 16 are in bank 0 of rank 0, 0 and 4 in row 0 and 16 in row 1; 8 is
\* in bank 0 of rank 1
DramWorkload ==
  {<<"RQ", 0, TRUE>>, <<"PQ", 4, TRUE>>, <<"RQ", 16, TRUE>>,
   <<"WQ", 0, FALSE>>, <<"WQ", 1, FALSE>>, <<"WQ", 8, FALSE>>}

\* what the n-th request writes
DramWriteData(n, address) == 200 + 10 * n + address

\* the upper level adds a request to a queue that has room for it
DramSend(q, address, response_requested) ==
  /\ chan_add(dram.ul, q,
              Request(address, address,
                      IF q = "WQ" THEN DramWriteData(dram.nreq + 1, address) ELSE 0,
                      IF q = "WQ" THEN "WRITE" ELSE IF q = "PQ" THEN "PREFETCH" ELSE "LOAD",
                      response_requested, TRUE, <<dram.nreq + 1>>),
              DramCfg.UPPER_SIZE).ok
  /\ dram' = [dram EXCEPT
                !.ul = chan_add(dram.ul, q,
                         Request(address, address,
                                 IF q = "WQ" THEN DramWriteData(dram.nreq + 1, address) ELSE 0,
                                 IF q = "WQ" THEN "WRITE"
                                   ELSE IF q = "PQ" THEN "PREFETCH" ELSE "LOAD",
                                 response_requested, TRUE, <<dram.nreq + 1>>),
                         DramCfg.UPPER_SIZE).ch,
                !.nreq = @ + 1]
  /\ UNCHANGED <<beside_dram, controller_cycle>>

\* the upper level sends a request
DramIssue(q, address, response_requested) ==
  /\ dram.nreq < DramMaxReq
  /\ dram.current_cycle < DramMaxCycle
  /\ DramSend(q, address, response_requested)

\* MEMORY_CONTROLLER::begin_phase at the end of the warm-up
DramEndWarmup ==
  /\ dram.warmup
  /\ dram' = [dram EXCEPT !.warmup = FALSE]
  /\ UNCHANGED <<beside_dram, controller_cycle>>

\* the row of the last request each bank has served, if neither a
\* refresh of the bank nor a change of mode has come since
note_rows(d) ==
  [d EXCEPT !.last_row =
     [b \in Banks |->
        IF \E k \in 1 .. Len(d.log.serviced) : d.log.serviced[k].bank = b
          THEN d.bank_request[b].open_row
        ELSE IF d.log.swapped \/ b \in d.log.refreshed THEN NoRow
        ELSE @[b]]]

\* one cycle: the upper level has read its responses, the controller
\* operates, and the clock advances
DramOperate ==
  /\ dram' = [note_rows(controller_operate(
                           [dram EXCEPT !.ul.returned = <<>>, !.log = EmptyDramLog],
                           dram.current_cycle))
                EXCEPT !.current_cycle = @ + 1]
  /\ controller_cycle' = controller_cycle + 1
  /\ UNCHANGED beside_dram

\* a cycle within the time the arrivals are explored
DramTick == dram.current_cycle < DramMaxCycle /\ DramOperate

NextDram ==
  \/ DramEndWarmup
  \/ \E w \in DramWorkload : DramIssue(w[1], w[2], w[3])
  \/ DramTick

InitDram == InitCache(BaseCfg)
SpecDram == InitDram /\ [][NextDram]_vars

\* writes that fill the WQ to its high watermark while a read is served: a
\* read and a write of one block, and a write to bank 0 of rank 1
WriteMaxReq == 3

WriteWorkload == {<<"RQ", 0, TRUE>>, <<"WQ", 0, FALSE>>, <<"WQ", 8, FALSE>>}

WriteIssue(q, address, response_requested) ==
  /\ dram.nreq < WriteMaxReq
  /\ dram.current_cycle < DramMaxCycle
  /\ DramSend(q, address, response_requested)

NextWrite ==
  \/ DramEndWarmup
  \/ \E w \in WriteWorkload : WriteIssue(w[1], w[2], w[3])
  \/ DramTick

SpecWrite == InitDram /\ [][NextWrite]_vars

\* a tick of the controller
dram_tick == dram'.current_cycle # dram.current_cycle

\* the occupied slots of a queue that hold the block of an address
slots_of(q, address) ==
  {i \in 1 .. Len(q) : q[i].has_value /\ dram_block(q[i].address) = dram_block(address)}

\* the requests a tick has added to a queue
added_to(log, q) == {k \in 1 .. Len(log.added) : log.added[k].q = q}

\* C17: out of the warm-up, a read that add_rq accepts while a slot of the
\* WQ holds a write of its block is answered in the same call of operate, by
\* check_read_collision, with the data of that write: its slot of the RQ is
\* empty again, its response (if it asked for one) is in returned with the
\* written data, and no bank and no data bus transfer was given to it.
C17_ReadForwardedFromWQ ==
  [][(dram_tick /\ ~dram.warmup) =>
       \A k \in added_to(dram'.log, "RQ") :
         \A w \in slots_of(dram.WQ, dram'.log.added[k].packet.address) :
           LET a == dram'.log.added[k]
               slot == [q |-> "RQ", i |-> a.i]
           IN  /\ \E f \in 1 .. Len(dram'.log.forwarded) :
                    /\ dram'.log.forwarded[f].i = a.i
                    /\ dram'.log.forwarded[f].pkt.address = a.packet.address
                    /\ dram'.log.forwarded[f].wq.data = dram.WQ[w].data
               /\ dram'.RQ[a.i] = nullopt
               /\ a.packet.response_requested =>
                    \E n \in 1 .. Len(dram'.ul.returned) :
                      dram'.ul.returned[n]
                        = Response(a.packet.address, a.packet.address, dram.WQ[w].data,
                                   a.packet.instr_depend_on_me)
               /\ \A s \in 1 .. Len(dram'.log.serviced) : dram'.log.serviced[s].slot # slot
               /\ \A s \in 1 .. Len(dram'.log.on_bus) : dram'.log.on_bus[s].slot # slot
               /\ \A b \in Banks :
                    dram'.bank_request[b].valid => dram'.bank_request[b].pkt # slot]_vars

\* the last tick has answered a read from a write that waits in the WQ
C17_Witness ==
  /\ ~dram.warmup
  /\ \E f \in 1 .. Len(dram.log.forwarded) :
       /\ dram.log.forwarded[f].wq \in {dram.WQ[i] : i \in 1 .. Len(dram.WQ)}
       /\ \E n \in 1 .. Len(dram.ul.returned) :
            /\ dram.ul.returned[n].address = dram.log.forwarded[f].pkt.address
            /\ dram.ul.returned[n].data = dram.log.forwarded[f].wq.data
            /\ dram.ul.returned[n].data >= 200

\* C18: a request that service_packet gives to a bank at cycle now finds
\* the bank free; the bank is then ready at now + tCAS if its open row was
\* the request's, at now + tCAS + tRCD if no row was open and at
\* now + tCAS + tRP + tRCD if another was, and its open row is the
\* request's; and a request for the row of the request the bank served
\* last, no refresh of the bank and no change of mode having come between,
\* is a row-buffer hit, ready at now + tCAS.
C18_ServiceTimes ==
  [][dram_tick =>
       \A k \in 1 .. Len(dram'.log.serviced) :
         LET s == dram'.log.serviced[k]
             now == dram.current_cycle
             bank == dram'.bank_request[s.bank]
         IN  /\ s.bank = get_rank(s.address) * DRAM_BANKS + get_bank(s.address)
             /\ s.row = get_row(s.address)
             /\ ~s.before.valid /\ ~s.before.under_refresh
             /\ bank.valid /\ bank.open_row = s.row /\ bank.pkt = s.slot
             /\ bank.row_buffer_hit = (s.before.open_row = s.row)
             /\ s.before.open_row = s.row => bank.event_cycle = now + tCAS
             /\ s.before.open_row = NoRow => bank.event_cycle = now + tCAS + tRCD
             /\ s.before.open_row \notin {NoRow, s.row} =>
                  bank.event_cycle = now + tCAS + tRP + tRCD
             /\ (/\ dram.last_row[s.bank] = s.row
                 /\ ~dram'.log.swapped /\ s.bank \notin dram'.log.refreshed)
                  => bank.row_buffer_hit /\ bank.event_cycle = now + tCAS]_vars

\* the last tick has given a bank a request for the row of the request the
\* bank served before: a row-buffer hit, ready tCAS after
C18_Witness ==
  /\ ~dram.warmup
  /\ \E k \in 1 .. Len(dram.log.serviced) :
       /\ dram.log.serviced[k].before.open_row = dram.log.serviced[k].row
       /\ dram.log.serviced[k].slot.q = "RQ"
       /\ dram.bank_request[dram.log.serviced[k].bank].row_buffer_hit
       /\ dram.bank_request[dram.log.serviced[k].bank].event_cycle
            = dram.current_cycle - 1 + tCAS

\* the writes of a block that a tick has added and check_write_collision
\* has not dropped
new_survivors(log, address) ==
  {k \in added_to(log, "WQ") :
     /\ dram_block(log.added[k].packet.address) = dram_block(address)
     /\ \A n \in 1 .. Len(log.dropped) : log.dropped[n].i # log.added[k].i}

Extents == {e \in (0 .. bits) \X (0 .. bits) : e[1] >= e[2]}

\* address_slice{up, low, val} and address_slice<up, low>{val}
Construct(up, low, val) ==
  /\ addr' = made(address_slice(up, low, val), "construct", val, addr.slice)
  /\ UNCHANGED beside_addr

\* address_slice{up, low, other} and address_slice<up, low>{other}; the
\* shifts by lower and low are defined (less than the width of the word)
ConstructFrom(up, low) ==
  /\ addr.slice.lower < bits /\ low < bits
  /\ addr' = made(address_slice_from(up, low, shift_left(addr.slice.value, addr.slice.lower)),
                  "from", 0, addr.slice)
  /\ UNCHANGED beside_addr

\* slice(slice_upper, slice_lower), within its assertions
Slice(slice_up, slice_low) ==
  /\ slice_low <= addr.slice.upper - addr.slice.lower
  /\ slice_up <= addr.slice.upper - addr.slice.lower
  /\ slice_up >= slice_low
  /\ addr.slice.lower < bits /\ slice_low + addr.slice.lower < bits
  /\ addr' = made(slice(addr.slice, slice_up, slice_low), "slice", 0, addr.slice)
  /\ UNCHANGED beside_addr

\* operator+= and operator+
Add(delta) ==
  /\ addr' = made(plus_assign(addr.slice, delta), "+=", delta, addr.slice)
  /\ UNCHANGED beside_addr

\* operator-= and operator-
Subtract(delta) ==
  /\ addr' = made(minus_assign(addr.slice, delta), "-=", delta, addr.slice)
  /\ UNCHANGED beside_addr

NextSlice ==
  \/ \E e \in Extents, val \in Word : Construct(e[1], e[2], val)
  \/ \E e \in Extents : ConstructFrom(e[1], e[2])
  \/ \E e \in Extents : Slice(e[1], e[2])
  \/ \E delta \in Delta : Add(delta)
  \/ \E delta \in Delta : Subtract(delta)

InitSlice == InitCache(BaseCfg)
SpecSlice == InitSlice /\ [][NextSlice]_vars

\* the width of a slice
slice_width(a) == a.upper - a.lower

\* C20: the value of every slice that a construction from an integer or
\* from a slice, a slicing, or +=, -=, + or - has made is less than
\* 2^(upper - lower); a construction from a slice and a slicing keep the
\* bits of the word that the old and the new extent share; and += and -=
\* keep the extent and leave the sum, or the difference, modulo
\* 2^(upper - lower).
C20_SliceWithinWidth ==
  /\ 0 <= addr.slice.lower /\ addr.slice.lower <= addr.slice.upper
  /\ addr.slice.upper <= bits
  /\ addr.slice.value >= 0
  /\ addr.slice.value < 2^slice_width(addr.slice)
  /\ addr.op = "construct" => addr.slice.value = addr.arg % 2^slice_width(addr.slice)
  /\ addr.op \in {"from", "slice"} =>
       \A b \in addr.slice.lower .. (addr.slice.upper - 1) :
         bit_set(addr.slice.value, b - addr.slice.lower)
           = (/\ addr.from.lower <= b /\ b < addr.from.upper
              /\ bit_set(addr.from.value, b - addr.from.lower))
  /\ addr.op \in {"+=", "-="} =>
       /\ addr.slice.upper = addr.from.upper /\ addr.slice.lower = addr.from.lower
  /\ addr.op = "+=" =>
       addr.slice.value = (addr.from.value + addr.arg) % 2^slice_width(addr.slice)
  /\ addr.op = "-=" =>
       addr.slice.value = (addr.from.value - addr.arg) % 2^slice_width(addr.slice)

\* a slice narrower than the word whose sum with a delta was beyond its
\* width has wrapped
C20_Witness ==
  /\ addr.op = "+="
  /\ slice_width(addr.slice) = 2 /\ addr.slice.lower = 1
  /\ addr.from.value + addr.arg >= 2^slice_width(addr.slice)
  /\ addr.slice.value = addr.from.value + addr.arg - 2^slice_width(addr.slice)

(***************************************************************************)
(* Comparisons of run-time-bounded slices (inc/address.h 71-94).  A        *)
(* comparison returns a boolean or throws std::invalid_argument.           *)
(***************************************************************************)
returns(b) == [throws |-> FALSE, value |-> b]
invalid_argument == [throws |-> TRUE, value |-> FALSE]

\* lhs || rhs of two comparisons, rhs evaluated only when lhs returns false
or_else(lhs, rhs) == IF lhs.throws \/ lhs.value THEN lhs ELSE rhs

\* operator==
equal(a, other) ==
  IF a.upper # other.upper THEN invalid_argument
  ELSE IF a.lower # other.lower THEN invalid_argument
  ELSE returns(a.value = other.value)

\* operator<
less(a, other) ==
  IF a.upper # other.upper THEN invalid_argument
  ELSE IF a.lower # other.lower THEN invalid_argument
  ELSE returns(a.value < other.value)

\* operator!=
not_equal(a, other) ==
  IF equal(a, other).throws THEN invalid_argument
  ELSE returns(~equal(a, other).value)

\* operator<=
less_equal(a, other) == or_else(less(a, other), equal(a, other))

\* operator>
greater(a, other) == returns(~(a.value <= other.value))

\* operator>=
greater_equal(a, other) == or_else(greater(a, other), equal(a, other))

CompareOps == {"==", "!=", "<", "<=", ">", ">="}

compare(op, a, other) ==
  CASE op = "==" -> equal(a, other)
    [] op = "!=" -> not_equal(a, other)
    [] op = "<" -> less(a, other)
    [] op = "<=" -> less_equal(a, other)
    [] op = ">" -> greater(a, other)
    [] op = ">=" -> greater_equal(a, other)

\* the slice under test compared with the slice that was there before it
Compare(op) ==
  /\ addr' = [slice |-> addr.slice, op |-> op, arg |-> 0, from |-> addr.from,
              result |-> compare(op, addr.slice, addr.from)]
  /\ UNCHANGED beside_addr

NextCompare ==
  \/ \E e \in Extents, val \in Word : Construct(e[1], e[2], val)
  \/ \E op \in CompareOps : Compare(op)

SpecCompare == InitSlice /\ [][NextCompare]_vars

\* the bounds of the two slices of a comparison differ
bounds_differ ==
  addr.slice.upper # addr.from.upper \/ addr.slice.lower # addr.from.lower

\* C21: every comparison (==, !=, <, <=, > and >=) of two slices whose upper
\* or lower bounds differ throws and returns no boolean.
C21_MismatchThrows ==
  (addr.op \in CompareOps /\ bounds_differ) => addr.result.throws

(***************************************************************************)
(* The core's calls of its branch predictors and BTBs.                     *)
(***************************************************************************)
\* what a call leaves in the core: the modules after it, and its record
cpu_after(branch, btbs, out, call, ip, target, taken) ==
  [branch |-> branch, btb |-> btbs, op |-> call, ip |-> ip, target |-> target,
   taken |-> taken, calls |-> out.calls, value |-> out.value]

PredictBranch(ip) ==
  /\ cpu' = cpu_after(impl_predict_branch(cpu.branch, ip).intern, cpu.btb,
                      impl_predict_branch(cpu.branch, ip),
                      "predict_branch", ip, NoTarget, FALSE)
  /\ UNCHANGED beside_cpu

LastBranchResult(ip, target, taken) ==
  /\ cpu' = cpu_after(impl_last_branch_result(cpu.branch, ip, target, taken).intern,
                      cpu.btb,
                      impl_last_branch_result(cpu.branch, ip, target, taken),
                      "last_branch_result", ip, target, taken)
  /\ UNCHANGED beside_cpu

BtbPrediction(ip) ==
  /\ cpu' = cpu_after(cpu.branch, impl_btb_prediction(cpu.btb, ip).intern,
                      impl_btb_prediction(cpu.btb, ip),
                      "btb_prediction", ip, NoTarget, FALSE)
  /\ UNCHANGED beside_cpu

UpdateBtb(ip, predicted_target, taken) ==
  /\ cpu' = cpu_after(cpu.branch, impl_update_btb(cpu.btb, ip, predicted_target, taken).intern,
                      impl_update_btb(cpu.btb, ip, predicted_target, taken),
                      "update_btb", ip, predicted_target, taken)
  /\ UNCHANGED beside_cpu

NextCpu ==
  \/ \E ip \in Ips : PredictBranch(ip)
  \/ \E ip \in Ips, target \in Targets, taken \in BOOLEAN :
       LastBranchResult(ip, target, taken)
  \/ \E ip \in Ips : BtbPrediction(ip)
  \/ \E ip \in Ips, target \in Targets, taken \in BOOLEAN :
       UpdateBtb(ip, target, taken)

InitCpu == InitCache(BaseCfg)
SpecCpu == InitCpu /\ [][NextCpu]_vars

\* the last module of a pack
last_of(intern) == intern[Len(intern)]

\* every module of a pack was called once, in declaration order
each_in_order(intern, calls) == calls = [k \in 1 .. Len(intern) |-> k]

\* C22: impl_predict_branch calls predict_branch of every predictor in
\* declaration order and returns what the last predictor returns;
\* impl_last_branch_result calls last_branch_result of every predictor;
\* impl_btb_prediction calls btb_prediction of every BTB in order and
\* returns the last BTB's (target, hit); impl_update_btb calls update_btb
\* of every BTB.
C22_LastVoteWins ==
  [][/\ cpu'.op = "predict_branch" =>
          /\ each_in_order(cpu.branch, cpu'.calls)
          /\ cpu'.value = predict_branch(last_of(cpu.branch), cpu'.ip).value
          /\ \A k \in DOMAIN cpu.branch :
               cpu'.branch[k] = predict_branch(cpu.branch[k], cpu'.ip).module
          /\ cpu'.btb = cpu.btb
     /\ cpu'.op = "last_branch_result" =>
          /\ each_in_order(cpu.branch, cpu'.calls)
          /\ \A k \in DOMAIN cpu.branch :
               cpu'.branch[k] =
                 last_branch_result(cpu.branch[k], cpu'.ip, cpu'.target, cpu'.taken).module
          /\ cpu'.btb = cpu.btb
     /\ cpu'.op = "btb_prediction" =>
          /\ each_in_order(cpu.btb, cpu'.calls)
          /\ cpu'.value = btb_prediction(last_of(cpu.btb), cpu'.ip).value
          /\ \A k \in DOMAIN cpu.btb :
               cpu'.btb[k] = btb_prediction(cpu.btb[k], cpu'.ip).module
          /\ cpu'.branch = cpu.branch
     /\ cpu'.op = "update_btb" =>
          /\ each_in_order(cpu.btb, cpu'.calls)
          /\ \A k \in DOMAIN cpu.btb :
               cpu'.btb[k] =
                 update_btb(cpu.btb[k], cpu'.ip, cpu'.target, cpu'.taken).module
          /\ cpu'.branch = cpu.branch]_vars

\* the two predictors disagree about a branch and the second's vote was
\* returned; the two BTBs disagree and the second's (target, hit) was
\* returned
C22_Witness ==
  /\ cpu.op = "btb_prediction"
  /\ cpu.value = <<1, TRUE>>
  /\ btb_prediction(cpu.btb[1], cpu.ip).value = <<2, TRUE>>
  /\ predict_branch(cpu.branch[1], cpu.ip).value = FALSE
  /\ predict_branch(cpu.branch[2], cpu.ip).value = TRUE
  /\ \A k \in DOMAIN cpu.branch : cpu.branch[k].asked = cpu.ip

(***************************************************************************)
(* A two-way cache: reads, a writeback of a block that is read, and a      *)
(* prefetch.                                                               *)
(***************************************************************************)
TwoWayCfg ==
  [BaseCfg EXCEPT !.NUM_WAY = 2, !.loads = {<<1, 0>>, <<1, 4>>},
                  !.writes = {<<2, 0>>}, !.prefetches = {<<2, TRUE>>}]

InitTwoWay == InitCache(TwoWayCfg)
SpecTwoWay == InitTwoWay /\ [][Next]_vars

\* C23: in every set, no two valid blocks have the same block address.
C23_NoDuplicateTag ==
  \A st \in Sets : \A w1, w2 \in Ways :
    (/\ w1 # w2
     /\ block[st][w1].valid /\ block[st][w2].valid)
      => BlockOf(block[st][w1].address) # BlockOf(block[st][w2].address)

\* a fill of the tick has written the way
filled_way(log, st, w) ==
  \E k \in 1 .. Len(log.fills) :
    log.fills[k].wrote /\ log.fills[k].set = st /\ log.fills[k].way = w

\* C24: a valid block whose dirty bit is set keeps it over every step in
\* which no fill writes its way: no hit of any access type clears it.
C24_DirtyStays ==
  [][\A st \in Sets : \A w \in Ways :
       (/\ block[st][w].valid /\ block[st][w].dirty
        /\ ~(current_cycle' # current_cycle /\ filled_way(tick_log', st, w)))
         => (block'[st][w].valid /\ block'[st][w].dirty)]_vars

\* the banks whose request is scheduled or on the data bus
busy_banks(d) == {b \in Banks : d.bank_request[b].valid \/ b = d.active_request}

\* C25: out of the warm-up, the queue slot of every bank request that is
\* valid or on the data bus holds a request, and that request is marked
\* scheduled; and the slot finish_dbus_request reads held a scheduled
\* request when it was read.
C25_BankSlotScheduled ==
  /\ [](~dram.warmup =>
          \A b \in busy_banks(dram) :
            bank_pkt(dram, b).has_value /\ bank_pkt(dram, b).scheduled)
  /\ [][(dram_tick /\ ~dram.warmup) =>
          \A k \in 1 .. Len(dram'.log.finished) :
            /\ dram'.log.finished[k].pkt.has_value
            /\ dram'.log.finished[k].pkt.scheduled]_vars

\* a request is on the data bus, out of the warm-up, over a tick that has
\* changed the mode and unscheduled the request of another bank
C25_Witness ==
  /\ ~dram.warmup
  /\ dram.active_request # NoBank
  /\ dram.log.swapped /\ dram.log.on_bus = <<>>
  /\ \E b \in Banks :
       /\ ~dram.bank_request[b].valid /\ dram.bank_request[b].pkt.i > 0
       /\ bank_pkt(dram, b).has_value /\ ~bank_pkt(dram, b).scheduled
       /\ bank_pkt(dram, b).event_cycle = dram.current_cycle - 1

\* the channel as swap_write_mode finds it in a tick: after the requests
\* were taken in, the collision checks and finish_dbus_request
before_swap(d) ==
  finish_dbus_request(
    check_read_collision(
      check_write_collision(
        warmup_drain(initiate_requests([d EXCEPT !.ul.returned = <<>>,
                                                 !.log = EmptyDramLog],
                                       d.current_cycle)),
        1),
      1),
    d.current_cycle)

\* C27: a tick changes write_mode exactly when swap_write_mode finds
\* (write_mode false and (wq_occu >= DRAM_WRITE_HIGH_WM or (rq_occu = 0 and
\* wq_occu > 0))) or (write_mode true and (wq_occu = 0 or (rq_occu > 0 and
\* wq_occu < DRAM_WRITE_LOW_WM))); in every other tick swap_write_mode
\* leaves write_mode, the bank requests and dbus_cycle_available as they
\* were.
C27_ToggleCondition ==
  [][dram_tick =>
       LET pre == before_swap(dram)
           wq_occu == Cardinality({i \in 1 .. Len(pre.WQ) : pre.WQ[i].has_value})
           rq_occu == Cardinality({i \in 1 .. Len(pre.RQ) : pre.RQ[i].has_value})
           toggle ==
             \/ /\ ~pre.write_mode
                /\ (wq_occu >= DRAM_WRITE_HIGH_WM \/ (rq_occu = 0 /\ wq_occu > 0))
             \/ /\ pre.write_mode
                /\ (wq_occu = 0 \/ (rq_occu > 0 /\ wq_occu < DRAM_WRITE_LOW_WM))
           post == swap_write_mode(pre, dram.current_cycle)
       IN  /\ pre.write_mode = dram.write_mode
           /\ (dram'.write_mode # dram.write_mode) = toggle
           /\ dram'.log.swapped = toggle
           /\ ~toggle =>
                /\ post.write_mode = pre.write_mode
                /\ post.bank_request = pre.bank_request
                /\ post.dbus_cycle_available = pre.dbus_cycle_available
                /\ dram'.dbus_cycle_available = dram.dbus_cycle_available]_vars

\* a tick has left the write mode with a write still queued, for a read
\* that waits
C27_Witness ==
  /\ ~dram.warmup
  /\ dram.log.swapped /\ ~dram.write_mode
  /\ occupancy(dram.WQ) > 0
  /\ occupancy(dram.RQ) > 0

\* C28: on a change of mode every valid bank request but the active one is
\* unscheduled (the bank no longer valid, its packet unscheduled and
\* eligible from the current cycle), the active request is left as it was,
\* and an unscheduled bank's open row is released exactly when now <
\* event_cycle - tCAS, and left open otherwise.
C28_ToggleUnschedules ==
  [][(dram_tick /\ dram'.log.swapped) =>
       LET pre == before_swap(dram)
           now == dram.current_cycle
           post == swap_write_mode(pre, now)
       IN  \A b \in Banks :
             IF b = pre.active_request
               THEN /\ post.active_request = b
                    /\ post.bank_request[b] = pre.bank_request[b]
                    /\ bank_pkt(post, b) = bank_pkt(pre, b)
               ELSE pre.bank_request[b].valid =>
                      /\ ~post.bank_request[b].valid
                      /\ ~bank_pkt(post, b).scheduled
                      /\ bank_pkt(post, b).event_cycle = now
                      /\ post.bank_request[b].open_row =
                           IF now < pre.bank_request[b].event_cycle - tCAS
                             THEN NoRow
                             ELSE pre.bank_request[b].open_row]_vars

\* the request on the data bus when swap_write_mode runs in a tick: the
\* active one, unless finish_dbus_request has just answered it
still_active(d) ==
  IF d.active_request # NoBank
       /\ d.bank_request[d.active_request].event_cycle > d.current_cycle
    THEN d.active_request
    ELSE NoBank

\* C29: a bank request becomes the active one only in a tick where none is
\* active and dbus_cycle_available <= now, and it holds the bus until now +
\* DRAM_DBUS_RETURN_TIME; so two requests never overlap on the bus, and
\* after a change of mode none is placed on it until
\* DRAM_DBUS_TURN_AROUND_TIME cycles after the change, or after the finish
\* time of the request that was active then.
C29_BusExclusive ==
  [][dram_tick =>
       LET now == dram.current_cycle
           held == still_active(dram)
       IN  /\ Len(dram'.log.on_bus) <= 1
           /\ dram'.log.on_bus # <<>> =>
                /\ held = NoBank
                /\ dram'.dbus_cycle_available <= now
                /\ ~dram'.log.swapped
                /\ dram'.active_request = dram'.log.on_bus[1].bank
                /\ dram'.bank_request[dram'.active_request].event_cycle
                     = now + DRAM_DBUS_RETURN_TIME
           /\ held # NoBank =>
                /\ dram'.active_request = held
                /\ dram'.bank_request[held].event_cycle = dram.bank_request[held].event_cycle
                /\ dram'.bank_request[held].valid
           /\ dram'.active_request # dram.active_request =>
                \/ dram'.log.on_bus # <<>>
                \/ dram'.active_request = NoBank /\ dram'.log.finished # <<>>
           /\ dram'.log.swapped =>
                dram'.dbus_cycle_available =
                  IF held # NoBank
                    THEN dram.bank_request[held].event_cycle + DRAM_DBUS_TURN_AROUND_TIME
                    ELSE now + DRAM_DBUS_TURN_AROUND_TIME
           /\ ~dram'.log.swapped =>
                dram'.dbus_cycle_available = dram.dbus_cycle_available]_vars

\* a request is placed on the bus in the first tick the turn-around after a
\* change of mode allows, after waiting for it
C29_Witness ==
  /\ dram.log.on_bus # <<>>
  /\ dram.dbus_cycle_available = dram.current_cycle - 1
  /\ dram.log.on_bus[1].ready < dram.current_cycle - 1
  /\ dram.sim_stats.dbus_count_congested > 0

\* C30: no bank is at once under refresh and holding a valid (scheduled or
\* active) request: a refresh starts only on a bank with no valid request
\* and is deferred while the bank has one, and service_packet never
\* schedules a request on a bank under refresh.
C30_RefreshExcludesRequest ==
  /\ [](\A b \in busy_banks(dram) : ~dram.bank_request[b].under_refresh)
  /\ [][dram_tick =>
          LET now == dram.current_cycle
              pre == swap_write_mode(before_swap(dram), now)
          IN  /\ \A b \in Banks :
                   (~dram.bank_request[b].under_refresh
                      /\ dram'.bank_request[b].under_refresh)
                     => b \notin busy_banks(pre)
              /\ \A b \in busy_banks(pre) :
                   (pre.bank_request[b].need_refresh \/ refresh_due(now))
                     => /\ ~dram'.bank_request[b].under_refresh
                        /\ dram'.bank_request[b].need_refresh
                        /\ dram'.bank_request[b].valid
              /\ \A k \in 1 .. Len(dram'.log.serviced) :
                   /\ ~dram'.log.serviced[k].before.under_refresh
                   /\ ~dram'.log.serviced[k].before.valid
                   /\ ~dram'.bank_request[dram'.log.serviced[k].bank].under_refresh]_vars

\* one bank's refresh is deferred by its request while a request waits for
\* another bank that is under refresh
C30_Witness ==
  /\ ~dram.warmup
  /\ \E b \in Banks : dram.bank_request[b].valid /\ dram.bank_request[b].need_refresh
  /\ \E q \in {"RQ", "WQ"} : \E i \in 1 .. Len(dram[q]) :
       /\ dram[q][i].has_value /\ ~dram[q][i].scheduled
       /\ dram[q][i].event_cycle < dram.current_cycle
       /\ dram.write_mode = (q = "WQ")
       /\ dram.bank_request[bank_index(dram[q][i].address)].under_refresh

(***************************************************************************)
(* The channel under a clock that keeps ticking: finitely many requests    *)
(* arrive in the first cycles, and the controller operates every cycle.    *)
(***************************************************************************)

ServeMaxReq == 3
ArriveMaxCycle == 4
ServeMaxCycle == 40

\* the requests that arrive: two reads of one block, one with a response
\* and a prefetch, a read of another row of the same bank, a read of the
\* first block nobody waits for, and writes of it and of another rank
ServeWorkload ==
  {<<"RQ", 0, TRUE>>, <<"PQ", 1, TRUE>>, <<"RQ", 16, TRUE>>, <<"RQ", 1, FALSE>>,
   <<"WQ", 0, FALSE>>, <<"WQ", 8, FALSE>>}

ServeIssue(q, address, response_requested) ==
  /\ dram.nreq < ServeMaxReq
  /\ dram.current_cycle < ArriveMaxCycle
  /\ DramSend(q, address, response_requested)

ServeTick == controller_cycle < ServeMaxCycle /\ DramOperate

\* the controller's clock advances: the step of every one of its ticks
ControllerStep ==
  controller_cycle < ServeMaxCycle /\ controller_cycle' = controller_cycle + 1

NextServe ==
  \/ DramEndWarmup
  \/ \E w \in ServeWorkload : ServeIssue(w[1], w[2], w[3])
  \/ ServeTick

\* the simulator's loop operates the controller in every cycle
SpecServe == InitDram /\ [][NextServe]_vars /\ WF_controller_cycle(ControllerStep)

\* the requests that may have been sent, by their numbers
Requests == 1 .. ServeMaxReq

\* request n waits in the RQ of d for a response
waits(d, n) ==
  \E i \in 1 .. Len(d.RQ) :
    /\ d.RQ[i].has_value
    /\ n \in Range(d.RQ[i].instr_depend_on_me)
    /\ d.RQ[i].to_return # <<>>

\* request n is somewhere in the RQ of d, or on its way to it
held(d, n) ==
  \/ \E i \in 1 .. Len(d.RQ) :
       d.RQ[i].has_value /\ n \in Range(d.RQ[i].instr_depend_on_me)
  \/ \E q \in {"RQ", "PQ"} : \E i \in 1 .. Len(d.ul[q]) :
       n \in Range(d.ul[q][i].instr_depend_on_me)

\* the last tick took request n into the RQ, with a response requested
accepted(d, n) ==
  \E k \in 1 .. Len(d.log.added) :
    /\ d.log.added[k].q = "RQ"
    /\ d.log.added[k].packet.response_requested
    /\ n \in Range(d.log.added[k].packet.instr_depend_on_me)

\* the responses of the last tick that answer request n
answers(d, n) ==
  {k \in 1 .. Len(d.ul.returned) : n \in Range(d.ul.returned[k].instr_depend_on_me)}

\* C26: after the warm-up and with finitely many arrivals, every read taken
\* into the RQ with a response requested is eventually answered on its
\* requester's returned queue and its slot freed, whatever changes of mode
\* and refreshes come between; it is answered once, by one response, and
\* never dropped.
C26_ReadAnsweredOnce ==
  /\ \A n \in Requests :
       (~dram.warmup /\ accepted(dram, n))
         ~> (answers(dram, n) # {} /\ ~held(dram, n))
  /\ [][\A n \in Requests :
          /\ Cardinality(answers(dram', n)) <= 1
          /\ (dram_tick /\ answers(dram', n) # {}) => held(dram, n) /\ ~held(dram', n)
          /\ (n <= dram.nreq /\ ~held(dram, n)) => ~held(dram', n)
          /\ (dram_tick /\ ~dram.warmup /\ (waits(dram, n) \/ accepted(dram', n)))
               => (waits(dram', n) \/ answers(dram', n) # {})]_vars

\* a bank answers two merged reads with one response, after the first
\* refresh and after a write has gone over the data bus
C26_Witness ==
  /\ ~dram.warmup
  /\ dram.log.finished # <<>>
  /\ \E k \in 1 .. Len(dram.ul.returned) : Len(dram.ul.returned[k].instr_depend_on_me) = 2
  /\ dram.sim_stats.refresh_cycles >= 1
  /\ dram.sim_stats.WQ_ROW_BUFFER_HIT + dram.sim_stats.WQ_ROW_BUFFER_MISS > 0

\* the requests service_packet has scheduled on bank b in the last tick
served_on(d, b) == {k \in 1 .. Len(d.log.serviced) : d.log.serviced[k].bank = b}

\* C31: a bank marked need_refresh eventually enters refresh; the mark is
\* not lost when a request is scheduled on the bank, completes there or is
\* unscheduled by a change of mode; the bank leaves refresh tCAS + tRCD
\* cycles after it entered it, with no open row, so that the first request
\* served on it after a refresh is not a row-buffer hit.
C31_RefreshHappens ==
  /\ \A b \in Banks :
       dram.bank_request[b].need_refresh ~> dram.bank_request[b].under_refresh
  /\ [][dram_tick =>
          \A b \in Banks :
            LET now == dram.current_cycle
                bank == dram.bank_request[b]
                after == dram'.bank_request[b]
            IN  /\ (bank.need_refresh \/ refresh_due(now))
                     => (after.need_refresh \/ after.under_refresh)
                /\ (~bank.under_refresh /\ after.under_refresh)
                     => after.event_cycle = now + tCAS + tRCD
                /\ (bank.under_refresh /\ bank.event_cycle > now)
                     => after.under_refresh /\ after.event_cycle = bank.event_cycle
                /\ (bank.under_refresh /\ bank.event_cycle <= now)
                     => /\ ~after.under_refresh
                        /\ IF served_on(dram', b) = {}
                             THEN after.open_row = NoRow
                             ELSE /\ ~after.row_buffer_hit
                                  /\ \A k \in served_on(dram', b) :
                                       dram'.log.serviced[k].before.open_row = NoRow
                /\ (bank.open_row = NoRow /\ ~bank.valid /\ served_on(dram', b) # {})
                     => ~after.row_buffer_hit]_vars

\* a bank leaves its refresh and takes a request in the same tick, while
\* another bank's refresh waits for the request that bank holds
C31_Witness ==
  /\ ~dram.warmup
  /\ \E b \in Banks :
       /\ b \in dram.log.refreshed
       /\ served_on(dram, b) # {}
       /\ dram.bank_request[b].valid
       /\ ~dram.bank_request[b].row_buffer_hit
  /\ \E b \in Banks : dram.bank_request[b].valid /\ dram.bank_request[b].need_refresh

(***************************************************************************)
(* Fills of both lists in one tick.                                        *)
(***************************************************************************)
\* two fills in a tick: a read and a prefetch of a block of each set and a
\* write
FillCfg ==
  [BaseCfg EXCEPT !.MAX_FILL = 2,
                  !.loads = {<<1, 0>>},
                  !.prefetches = {<<2, TRUE>>},
                  !.writes = {<<1, 3>>}]
\* one fill in a tick: writes of two blocks of set 0, whose writebacks fill
\* the lower level's WQ, a read of the first and a write to set 1
OneFillCfg ==
  [BaseCfg EXCEPT !.requests = 4,
                  !.writes = {<<1, 0>>, <<1, 4>>, <<1, 3>>},
                  !.loads = {<<2, 0>>}]

InitFill == \E c \in {FillCfg, OneFillCfg} : InitCache(c)
SpecFill == InitFill /\ [][Next]_vars

\* the cache as "Perform fills" finds it in a tick
before_fills ==
  drain_translations(drain_returns(collision_pass(TickStart), current_cycle, warmup))

\* the number of leading entries of q with event_cycle <= now
ready_prefix(q, now) ==
  Cardinality({p \in 1 .. Len(q) : \A j \in 1 .. p : q[j].event_cycle <= now})

\* C32: in a tick at most MAX_FILL fills succeed, over the MSHR and then
\* inflight_writes; only the leading entries with event_cycle <= now are
\* tried, in the order of the list; the first entry whose handle_fill fails
\* ends the fills of its list for the tick, and a failed attempt takes
\* nothing from the budget.
C32_FillBudget ==
  [][current_cycle' # current_cycle =>
       LET now == current_cycle
           mshr == before_fills.MSHR
           writes == before_fills.inflight_writes
           fills == tick_log'.fills
           refused == tick_log'.fill_refused
           m == tick_log'.mshr_filled
           w == Len(fills) - m
           mshr_failed == m < Min(MAX_FILL, ready_prefix(mshr, now))
           writes_failed == w < Min(MAX_FILL - m, ready_prefix(writes, now))
       IN  /\ Len(fills) <= MAX_FILL
           /\ 0 <= w
           /\ m <= ready_prefix(mshr, now)
           /\ w <= ready_prefix(writes, now)
           /\ \A k \in 1 .. m : fills[k].entry = mshr[k]
           /\ \A k \in 1 .. w : fills[m + k].entry = writes[k]
           /\ Len(refused) = (IF mshr_failed THEN 1 ELSE 0)
                               + (IF writes_failed THEN 1 ELSE 0)
           /\ mshr_failed => refused[1].entry = mshr[m + 1]
           /\ writes_failed => refused[Len(refused)].entry = writes[w + 1]]_vars

\* the fill of the first MSHR entry has failed, and a write has been filled
\* in the same tick
C32_Witness ==
  /\ tick_log.mshr_filled = 0
  /\ tick_log.fills # <<>>
  /\ tick_log.fill_refused # <<>>
  /\ MSHR # <<>>
  /\ tick_log.fill_refused[1].entry = MSHR[1]

(***************************************************************************)
(* Misses of every type, forwarded to the lower level.                     *)
(***************************************************************************)
\* a cache whose writes miss like reads (match_offset_bits), with a read, a
\* write and prefetches that fill this level or not; and the same cache
\* sending its prefetches as loads
ForwardCfg ==
  [BaseCfg EXCEPT !.requests = 2, !.match_offset_bits = TRUE,
                  !.loads = {<<1, 0>>}, !.writes = {<<2, 2>>},
                  !.prefetches = {<<4, TRUE>>, <<4, FALSE>>}]
AsLoadCfg == [ForwardCfg EXCEPT !.prefetch_as_load = TRUE]

InitForward == \E c \in {ForwardCfg, AsLoadCfg} : InitCache(c)
SpecForward == InitForward /\ [][Next]_vars

\* the request whose tag check has missed in the tick that s.log is of
missed(log) == log.tags[Len(log.tags)].pkt

\* what the claim says of the lower level's queues and of the forwarded
\* type in a tick that forwards a miss
forwarded_as_said ==
  LET fwd == tick_log'.forwards[1]
      pkt == missed(tick_log')
  IN  /\ Len(tick_log'.forwards) = 1
      /\ ~tick_log'.tags[Len(tick_log'.tags)].hit
      /\ \A k \in 1 .. Len(MSHR) - tick_log'.mshr_filled :
           BlockOf(MSHR'[k].address) # BlockOf(pkt.address)
      /\ fwd.address = pkt.address
      /\ fwd.type = (IF pkt.type = "WRITE" THEN "RFO" ELSE pkt.type)
      /\ IF pkt.type = "PREFETCH" /\ ~prefetch_as_load
           THEN /\ lower_level'.PQ = Append(lower_level.PQ, fwd)
                /\ lower_level'.RQ = lower_level.RQ
           ELSE /\ lower_level'.RQ = Append(lower_level.RQ, fwd)
                /\ lower_level'.PQ = lower_level.PQ

\* the MSHR has grown by one entry, for the block of the miss
mshr_grown ==
  /\ Len(MSHR') = Len(MSHR) - tick_log'.mshr_filled + 1
  /\ BlockOf(MSHR'[Len(MSHR')].address) = BlockOf(missed(tick_log').address)

\* C33 as stated: whenever handle_miss enqueues a forwarded request for a
\* block without MSHR entry, the MSHR grows by exactly one entry, for that
\* block; writes are forwarded as RFO, and the request goes to the lower PQ
\* only when it is a PREFETCH and prefetch_as_load is false, otherwise to
\* the lower RQ.
C33_AsStated ==
  [][(current_cycle' # current_cycle /\ tick_log'.forwards # <<>>) =>
       forwarded_as_said /\ mshr_grown]_vars

\* C33: whenever handle_miss enqueues a forwarded request for a block
\* without MSHR entry, the MSHR grows by exactly one entry, for that block,
\* if the forwarded request asks for a response, and stays as it is if it
\* does not (a locally issued prefetch that skips the fill); writes are
\* forwarded as RFO, and the request goes to the lower PQ only when it is a
\* PREFETCH and prefetch_as_load is false, otherwise to the lower RQ.
C33_ForwardAllocates ==
  [][(current_cycle' # current_cycle /\ tick_log'.forwards # <<>>) =>
       /\ forwarded_as_said
       /\ tick_log'.forwards[1].response_requested
            = ~(missed(tick_log').prefetch_from_this /\ missed(tick_log').skip_fill)
       /\ IF tick_log'.forwards[1].response_requested
            THEN mshr_grown
            ELSE Len(MSHR') = Len(MSHR) - tick_log'.mshr_filled]_vars

\* a prefetch that fills this level has been sent to the lower RQ by a
\* cache that sends prefetches as loads, and has its MSHR entry
C33_Witness ==
  /\ cfg.prefetch_as_load
  /\ tick_log.forwards # <<>>
  /\ tick_log.forwards[1].type = "PREFETCH"
  /\ lower_level.RQ # <<>>
  /\ lower_level.RQ[Len(lower_level.RQ)] = tick_log.forwards[1]
  /\ MSHR # <<>>
  /\ BlockOf(MSHR[Len(MSHR)].address) = BlockOf(tick_log.forwards[1].address)

(***************************************************************************)
(* A cache that has its requests translated by a lower level.              *)
(***************************************************************************)
\* the physical page the translation level answers for a virtual address:
\* the pages 0 and 1 change places
PhysicalPage(v_address) == splice(1 - page_number(v_address), 0)

\* the translation level takes the entry i of its RQ and answers it
TranslateOperate(i) ==
  /\ InTime
  /\ i \in 1 .. Len(lower_translate.RQ)
  /\ lower_translate' =
       [lower_translate EXCEPT
          !.RQ = Take(@, i - 1) \o Drop(@, i),
          !.returned =
             Append(@, Response(lower_translate.RQ[i].address,
                                lower_translate.RQ[i].v_address,
                                PhysicalPage(lower_translate.RQ[i].v_address),
                                lower_translate.RQ[i].instr_depend_on_me))]
  /\ UNCHANGED <<beside_cache, cfg, current_cycle, warmup, block, MSHR, inflight_writes,
                 inflight_tag_check, translation_stash, internal_PQ, upper_levels,
                 lower_level, sim_stats, packets, arrival, nreq, tick_log>>

TranslateStep == \E i \in 1 .. 2 : TranslateOperate(i)

NextTranslate ==
  \/ EndWarmup
  \/ \E ul \in Uppers, type \in {"LOAD", "WRITE", "PREFETCH"}, address \in Addresses :
       Issue(ul, type, address)
  \/ \E pf_addr \in Addresses, fill_this_level \in BOOLEAN : PrefetchLine(pf_addr, fill_this_level)
  \/ LowerStep
  \/ TranslateStep
  \/ TickStep

\* untranslated reads of two pages from two upper levels, with a
\* translation level that holds one request
TranslateCfg ==
  [BaseCfg EXCEPT !.has_translate = TRUE, !.requests = 2,
                  !.loads = {<<1, 0>>, <<2, 4>>}]
\* a read and a virtual prefetch of two pages on a cache of one MSHR whose
\* translation level holds two requests
WideTranslateCfg ==
  [TranslateCfg EXCEPT !.MSHR_SIZE = 1, !.TRANSLATE_SIZE = 2, !.loads = {<<1, 0>>},
                       !.virtual_prefetch = TRUE, !.prefetches = {<<4, TRUE>>}]

InitTranslate == \E c \in {TranslateCfg, WideTranslateCfg} : InitCache(c)
SpecTranslate == InitTranslate /\ [][NextTranslate]_vars

\* the cache as the stash step finds it in a tick; the replacement policy's
\* answers to the fills leave the tag checks as they are
before_stash ==
  issue_translation(
    initiate_tag_checks(
      perform_fills(before_fills, CHOOSE v \in VictimChoices : TRUE,
                    CHOOSE w \in WriteVictimChoices : TRUE, current_cycle),
      current_cycle, warmup),
    1)

\* C34 as stated: at the stash step of every tick, every inflight tag check
\* with event_cycle < now that is not translated moves to the translation
\* stash, whether its translation request was accepted or not.
C34_AsStated ==
  [][current_cycle' # current_cycle =>
       LET late(x) == x.event_cycle < current_cycle /\ ~x.is_translated
       IN  /\ translation_stash'
                = before_stash.translation_stash
                    \o SelectSeq(before_stash.inflight_tag_check, late)
           /\ \A i \in 1 .. Len(inflight_tag_check') : ~late(inflight_tag_check'[i])]_vars

\* C34: at the stash step of every tick, every inflight tag check with
\* event_cycle < now that is not translated and whose translation request
\* the translation channel has accepted moves to the translation stash; one
\* whose request was refused stays in inflight_tag_check.
C34_StashIssued ==
  [][current_cycle' # current_cycle =>
       LET late(x) == x.event_cycle < current_cycle /\ ~x.is_translated
           accepted_late(x) == late(x) /\ x.translate_issued
           refused_late(x) == late(x) /\ ~x.translate_issued
       IN  /\ translation_stash'
                = before_stash.translation_stash
                    \o SelectSeq(before_stash.inflight_tag_check, accepted_late)
           /\ \A i \in 1 .. Len(inflight_tag_check') :
                ~accepted_late(inflight_tag_check'[i])
           /\ SelectSeq(inflight_tag_check', refused_late)
                = SelectSeq(before_stash.inflight_tag_check, refused_late)]_vars

\* a late tag check is in the stash while another, whose translation
\* request was refused, is still inflight after the tick
C34_Witness ==
  /\ translation_stash # <<>>
  /\ ~translation_stash[Len(translation_stash)].is_translated
  /\ translation_stash[Len(translation_stash)].translate_issued
  /\ \E i \in 1 .. Len(inflight_tag_check) :
       /\ inflight_tag_check[i].event_cycle < current_cycle - 1
       /\ ~inflight_tag_check[i].is_translated
       /\ ~inflight_tag_check[i].translate_issued

(***************************************************************************)
(* Hits on prefetched blocks.                                              *)
(***************************************************************************)
\* a block prefetched by this cache, then asked for by a read, by a prefetch
\* of an upper level or by a second prefetch of this cache
UsefulCfg ==
  [BaseCfg EXCEPT !.prefetches = {<<0, TRUE>>}, !.loads = {<<1, 1>>},
                  !.upper_prefetches = {<<2, 0>>}]

InitUseful == InitCache(UsefulCfg)
SpecUseful == InitUseful /\ [][Next]_vars

\* what the tag checks of a tick have left of pf_useful, handle_miss's
\* promotions set apart, and of the prefetch bit of the blocks they have
\* hit, useful(e) saying which hits count
hits_counted(useful(_)) ==
  LET tags == tick_log'.tags
      counted == {k \in 1 .. Len(tags) : tags[k].hit /\ useful(tags[k])}
  IN  /\ sim_stats'.pf_useful
           = sim_stats.pf_useful + Cardinality(counted)
               + Cardinality(promotions(tick_log'))
      /\ \A k \in 1 .. Len(tags) :
           tags[k].hit =>
             LET set == get_set_index(tags[k].pkt.address)
                 way == hit_way(block'[set], tags[k].pkt.address)
             IN  /\ way # NUM_WAY
                 /\ block'[set][way].prefetch
                      = (tags[k].before.prefetch /\ ~useful(tags[k]))

\* C35 as stated: try_hit increments pf_useful and clears the block's
\* prefetch bit exactly when an access of a type other than PREFETCH hits a
\* valid block whose prefetch bit is set; a hit by a prefetch, issued
\* locally or received from an upper level, does neither.
C35_AsStated ==
  [][current_cycle' # current_cycle =>
       LET useful(e) == e.before.prefetch /\ e.pkt.type # "PREFETCH"
       IN  hits_counted(useful)]_vars

\* C35: try_hit increments pf_useful and clears the block's prefetch bit
\* exactly when an access that is not a prefetch issued by this cache hits a
\* valid block whose prefetch bit is set; a hit by a locally issued prefetch
\* does neither, and a prefetch received from an upper level counts as any
\* other access.
C35_UsefulPrefetch ==
  [][current_cycle' # current_cycle =>
       LET useful(e) == e.before.prefetch /\ ~e.pkt.prefetch_from_this
       IN  hits_counted(useful)]_vars

\* a prefetch of an upper level has hit a prefetched block and has been
\* counted as useful
C35_Witness ==
  /\ sim_stats.pf_useful = 1
  /\ tick_log.tags # <<>>
  /\ tick_log.tags[1].hit
  /\ tick_log.tags[1].before.prefetch
  /\ tick_log.tags[1].pkt.type = "PREFETCH"
  /\ ~tick_log.tags[1].pkt.prefetch_from_this

\* C37: the translation stash never holds more than MSHR_SIZE entries, for
\* any arrival of untranslated requests and any delay or refusal of their
\* translations.
C37_StashBounded == Len(translation_stash) <= MSHR_SIZE

\* C39: prefetcher_cache_operate is invoked once in total for a request
\* whose type activates the prefetcher, also when handle_miss refuses it and
\* its tag check is done again in a later tick: the tag check of a request
\* that the last tick has refused does not invoke it again.
C39_OperateOnce ==
  [][(/\ current_cycle' # current_cycle
      /\ tick_log.refused # <<>>
      /\ should_activate_prefetcher(tick_log.refused[1])) =>
       \A k \in 1 .. Len(tick_log'.tags) :
         tick_log'.tags[k].pkt = tick_log.refused[1] =>
           /\ ~tick_log'.tags[k].activated
           /\ \A h \in 1 .. Len(tick_log'.hooks) :
                tick_log'.hooks[h]
                  # hook_call("prefetcher_cache_operate", tick_log.refused[1].address)]_vars

\* C40: the data a filled MSHR entry writes into its block and sends to the
\* requesters is the data of the lower level's response for the block, also
\* when a demand miss has promoted the entry of a prefetch after the
\* response had arrived; and the promoted entry keeps every to_return target
\* and every instruction dependent that was merged.
C40_FillCarriesResponse ==
  [][current_cycle' # current_cycle =>
       /\ \A k \in 1 .. tick_log'.mshr_filled :
            tick_log'.fills[k].entry.data
              = InitialData(tick_log'.fills[k].entry.address)
       /\ \A k \in 1 .. Len(tick_log'.merges) :
            \A i \in 1 .. Len(MSHR') :
              mshr_match(MSHR'[i], tick_log'.merges[k].pkt.address) =>
                /\ Range(tick_log'.merges[k].entry.to_return)
                     \cup Range(tick_log'.merges[k].pkt.to_return)
                       \subseteq Range(MSHR'[i].to_return)
                /\ Range(tick_log'.merges[k].entry.instr_depend_on_me)
                     \cup Range(tick_log'.merges[k].pkt.instr_depend_on_me)
                       \subseteq Range(MSHR'[i].instr_depend_on_me)]_vars

(***************************************************************************)
(* The page-table walker (src/ptw.cc).  A virtual page number has one bit  *)
(* per level of the walk; the page tables are those of a virtual-memory    *)
(* model that gives every prefix of a page number its own table of         *)
(* PtePerPage entries, one block wide.                                     *)
(***************************************************************************)
PtePerPage == 2
PtwMaxCycle == 3
PtwArriveCycle == 1
PtwDrainCycle == 30
MinorFault == 1

\* VirtualMemory::get_offset: the index of v in its table of a level
get_offset(v, level) == (v \div 2^level) % PtePerPage

\* the page of the table that holds the entry of v at a level
pt_page(v, level) == 2^(PtwCfg.NUM_PSCL - level) - 1 + (v \div 2^(level + 1))

\* VirtualMemory::get_pte_pa(cpu, v, level).first: where the walk of v reads
\* once the entry of `level` is known (level = pt_levels: from the root)
get_pte_pa(v, level) == pt_page(v, level - 1) * PtePerPage + get_offset(v, level - 1)

\* VirtualMemory::va_to_pa(cpu, v).first
va_to_pa(v) == 8 + v

\* champsim::splice_bits(upper, lower, LOG2_PAGE_SIZE), lower being the
\* byte offset of an entry
splice_bits(upper, lower) == (upper \div PtePerPage) * PtePerPage + (lower % PtePerPage)

\* CR3_addr(b.m_vmem->get_pte_pa(b.m_cpu, 0, b.m_vmem->pt_levels).first)
CR3_addr == get_pte_pa(0, PtwCfg.NUM_PSCL + 1)

\* pscl_indexer{shamt(level)} of the PSCL idx, the first being the one of
\* the highest level
pscl_indexer(idx, vaddr) == vaddr \div 2^(PtwCfg.NUM_PSCL + 1 - idx)

\* lru_table::check_hit on the PSCL idx, a set of entries with one entry
\* for a key at most
check_hit(table, idx, vaddr) ==
  {e \in table : pscl_indexer(idx, e.vaddr) = pscl_indexer(idx, vaddr)}

\* lru_table::fill on the PSCL idx, whose sets have room for every key
pscl_fill(table, idx, e) ==
  {x \in table : pscl_indexer(idx, x.vaddr) # pscl_indexer(idx, e.vaddr)} \cup {e}

\* std::accumulate over pscl_hits: the hit of the last PSCL that has one
RECURSIVE accumulate_hits(_, _, _, _)
accumulate_hits(pscl, vaddr, idx, walk) ==
  IF idx > PtwCfg.NUM_PSCL THEN walk
  ELSE accumulate_hits(pscl, vaddr, idx + 1,
                       IF check_hit(pscl[idx], idx, vaddr) # {}
                         THEN CHOOSE e \in check_hit(pscl[idx], idx, vaddr) : TRUE
                         ELSE walk)

\* PageTableWalker::mshr_type::mshr_type(req, level)
ptw_mshr_type(req, level) ==
  [address |-> req.address, v_address |-> req.v_address, data |-> 0,
   instr_depend_on_me |-> req.instr_depend_on_me, translation_level |-> level,
   to_return |-> <<>>]

\* the request of a walk
walk_of(entry) == entry.instr_depend_on_me[1]

\* PageTableWalker::step_translation
step_translation(p, source) ==
  IF Len(p.ll.RQ) >= PtwCfg.LOWER_SIZE
    THEN [ok |-> FALSE, p |-> p, value |-> source]
    ELSE [ok |-> TRUE,
          p |-> [p EXCEPT
                   !.ll.RQ = Append(@, [address |-> source.address,
                                        v_address |-> source.v_address,
                                        type |-> "TRANSLATION", is_translated |-> TRUE]),
                   !.hist[walk_of(source)].levels = Append(@, source.translation_level),
                   !.log.issued = Append(@, [walk |-> walk_of(source),
                                             level |-> source.translation_level,
                                             address |-> source.address])],
          value |-> source]

\* PageTableWalker::handle_read
ptw_handle_read(p, handle_pkt, ul) ==
  LET walk_init == accumulate_hits(p.pscl, handle_pkt.v_address, 1,
                                   [vaddr |-> handle_pkt.v_address, ptw_addr |-> CR3_addr,
                                    level |-> PtwCfg.NUM_PSCL])
      walk_offset == get_offset(handle_pkt.address, walk_init.level)
  IN  step_translation(p,
        [ptw_mshr_type(handle_pkt, walk_init.level) EXCEPT
           !.address = splice_bits(walk_init.ptw_addr, walk_offset),
           !.v_address = handle_pkt.address,
           !.to_return = IF handle_pkt.response_requested THEN <<ul>> ELSE <<>>])

\* PageTableWalker::handle_fill
ptw_handle_fill(p, fill_mshr) ==
  LET pscl_idx == PtwCfg.NUM_PSCL - fill_mshr.translation_level + 1
      entry == [vaddr |-> fill_mshr.v_address, ptw_addr |-> fill_mshr.data,
                level |-> fill_mshr.translation_level - 1]
  IN  step_translation(
        [p EXCEPT !.pscl[pscl_idx] = pscl_fill(@, pscl_idx, entry),
                  !.log.filled = Append(@, [idx |-> pscl_idx, entry |-> entry,
                                            mshr |-> fill_mshr])],
        [fill_mshr EXCEPT !.address = fill_mshr.data,
                          !.translation_level = fill_mshr.translation_level - 1])

\* std::partition of q[first], .., q[last - 1] by the mark `hit`, as the
\* library does it for bidirectional iterators; mid is the partition point
RECURSIVE partition_marked(_, _, _)
partition_marked(q, first, last) ==
  LET misses == {k \in first .. (last - 1) : ~q[k].hit}
      f == CHOOSE k \in misses : \A j \in misses : k <= j
      hits == {k \in (f + 1) .. (last - 1) : q[k].hit}
      l == CHOOSE k \in hits : \A j \in hits : j <= k
  IN  IF misses = {} THEN [q |-> q, mid |-> last]
      ELSE IF hits = {} THEN [q |-> q, mid |-> f]
      ELSE partition_marked([q EXCEPT ![f] = q[l], ![l] = q[f]], f + 1, l)

\* finish_packet's is_last_step: the entry is not of the last level
is_last_step(x) == x.translation_level > 0

MutFinishNoLatency(mshr_entry, now, wu, penalty) ==
  [value |-> [mshr_entry EXCEPT
                !.data = IF is_last_step(mshr_entry)
                           THEN get_pte_pa(mshr_entry.v_address, mshr_entry.translation_level)
                           ELSE va_to_pa(mshr_entry.v_address)],
   ready |-> now + penalty]

\* finish_packet's finish_step and finish_last_step
finish_step(mshr_entry, now, wu, penalty) ==
  [value |-> [mshr_entry EXCEPT
                !.data = IF is_last_step(mshr_entry)
                           THEN get_pte_pa(mshr_entry.v_address, mshr_entry.translation_level)
                           ELSE va_to_pa(mshr_entry.v_address)],
   ready |-> now + penalty + (IF wu THEN 0 ELSE PtwCfg.HIT_LATENCY)]

\* the walks whose level-0 entry has returned now
note_returned(hist, done, now, wu) ==
  [n \in DOMAIN hist |->
     IF \E i \in 1 .. Len(done) : walk_of(done[i].value) = n
       THEN [hist[n] EXCEPT !.returned0 = now, !.warm0 = wu]
       ELSE hist[n]]

\* PageTableWalker::finish_packet
ptw_finish_packet(p, packet, now, penalty) ==
  LET matches_addr(x) == x.address \div PtePerPage = packet.address \div PtePerPage
      parted == partition_marked([i \in 1 .. Len(p.MSHR) |->
                                    [x |-> p.MSHR[i], hit |-> matches_addr(p.MSHR[i])]],
                                 1, Len(p.MSHR) + 1)
      match_addr == [i \in 1 .. (parted.mid - 1) |->
                       finish_step(parted.q[i].x, now, p.warmup, penalty)]
      not_last(w) == is_last_step(w.value)
      last(w) == ~is_last_step(w.value)
  IN  [p EXCEPT
        !.MSHR = [i \in 1 .. (Len(p.MSHR) - parted.mid + 1) |->
                    parted.q[parted.mid - 1 + i].x],
        !.finished = @ \o SelectSeq(match_addr, not_last),
        !.completed = @ \o SelectSeq(match_addr, last),
        !.hist = note_returned(@, SelectSeq(match_addr, last), now, p.warmup)]

RECURSIVE ptw_finish_returns(_, _, _, _)
ptw_finish_returns(p, returned, now, penalty) ==
  IF returned = <<>> THEN p
  ELSE ptw_finish_returns(ptw_finish_packet(p, Head(returned), now, penalty),
                          Tail(returned), now, penalty)

\* the walks delivered now
note_delivered(hist, done, now) ==
  [n \in DOMAIN hist |->
     LET times == Cardinality({i \in 1 .. Len(done) : walk_of(done[i].value) = n})
     IN  IF times > 0
           THEN [hist[n] EXCEPT !.delivered = @ + times, !.delivered_at = now]
           ELSE hist[n]]

\* operate's std::for_each over the n first completed entries
complete_entries(p, n, now) ==
  LET done == SubSeq(p.completed, 1, n)
      answer(w) == Response(w.value.v_address, w.value.v_address, w.value.data,
                            w.value.instr_depend_on_me)
  IN  [p EXCEPT
        !.ul = [u \in Uppers |->
                  LET mine(w) == \E k \in 1 .. Len(w.value.to_return) :
                                   w.value.to_return[k] = u
                      sent == SelectSeq(done, mine)
                  IN  [p.ul[u] EXCEPT
                         !.returned = @ \o [i \in 1 .. Len(sent) |-> answer(sent[i])]]],
        !.completed = SubSeq(@, n + 1, Len(@)),
        !.hist = note_delivered(@, done, now),
        !.log.delivered = @ \o [i \in 1 .. n |-> done[i].value]]

\* get_span_p over finished[k+1], .., finished[n] with handle_fill as the
\* predicate; r is [p, steps]
RECURSIVE fill_steps(_, _, _, _)
fill_steps_next(r, h, q, n, k) ==
  IF h.ok THEN fill_steps([p |-> h.p, steps |-> Append(r.steps, h.value)], q, n, k + 1)
  ELSE [p |-> h.p, steps |-> r.steps, done |-> k]

fill_steps(r, q, n, k) ==
  IF k >= n THEN [p |-> r.p, steps |-> r.steps, done |-> k]
  ELSE fill_steps_next(r, ptw_handle_fill(r.p, q[k + 1].value), q, n, k)

\* get_span_p over the n first entries of the RQ of ul from the k-th on,
\* with handle_read as the predicate
RECURSIVE read_steps(_, _, _, _, _)
read_steps_next(r, h, ul, q, n, k) ==
  IF h.ok THEN read_steps([p |-> h.p, steps |-> Append(r.steps, h.value)], ul, q, n, k + 1)
  ELSE [p |-> h.p, steps |-> r.steps, done |-> k]

read_steps(r, ul, q, n, k) ==
  IF k >= n THEN [p |-> r.p, steps |-> r.steps, done |-> k]
  ELSE read_steps_next(r, ptw_handle_read(r.p, q[k + 1], ul), ul, q, n, k)

\* operate's loop over upper_levels, from ul on; r is [p, steps, bw]
RECURSIVE read_uppers(_, _)
read_upper(r, ul, got) ==
  read_uppers([p |-> [got.p EXCEPT !.ul[ul].RQ = SubSeq(@, got.done + 1, Len(@))],
               steps |-> got.steps, bw |-> r.bw - got.done], ul + 1)

read_uppers(r, ul) ==
  IF ul \notin Uppers THEN r
  ELSE read_upper(r, ul,
                  read_steps([p |-> r.p, steps |-> r.steps], ul, r.p.ul[ul].RQ,
                             Min(r.bw, Len(r.p.ul[ul].RQ)), 0))

\* operate from "fill_bw -= std::distance(complete_begin, complete_end)" on
ptw_fill_and_read(p, fill_bw, now) ==
  LET is_ready(w) == w.ready <= now
      filled == fill_steps([p |-> p, steps |-> <<>>], p.finished,
                           SpanP(p.finished, fill_bw, is_ready), 0)
      read == read_uppers([p |-> [filled.p EXCEPT
                                    !.finished = SubSeq(@, filled.done + 1, Len(@))],
                           steps |-> filled.steps, bw |-> PtwCfg.MAX_READ], 1)
  IN  [read.p EXCEPT !.MSHR = @ \o read.steps]

\* PageTableWalker::operate
ptw_operate(p, now, penalty) ==
  LET is_ready(w) == w.ready <= now
      returned == [ptw_finish_returns(p, p.ll.returned, now, penalty) EXCEPT
                     !.ll.returned = <<>>]
      n == SpanP(returned.completed, PtwCfg.MAX_FILL, is_ready)
  IN  ptw_fill_and_read(complete_entries(returned, n, now), PtwCfg.MAX_FILL - n, now)

\* the translations the upper levels ask for: pages that share every table
\* and a page that has a last table of its own
PtwWorkload == {<<1, 0>>, <<2, 1>>, <<1, 2>>}

\* an upper level asks for the translation of the page v
PtwIssue(ul, v) ==
  /\ ptw.nreq < PtwMaxReq
  /\ ptw_cycle < PtwArriveCycle
  /\ <<ul, v>> \in PtwWorkload
  /\ Len(ptw.ul[ul].RQ) < PtwCfg.UPPER_SIZE
  /\ ptw' = [ptw EXCEPT
               !.nreq = @ + 1,
               !.ul[ul].RQ = Append(@, [address |-> v, v_address |-> v,
                                        response_requested |-> TRUE,
                                        instr_depend_on_me |-> <<ptw.nreq + 1>>])]
  /\ UNCHANGED <<beside_ptw, ptw_cycle>>

\* the end of the warm-up phase
PtwEndWarmup ==
  /\ ptw.warmup
  /\ ptw' = [ptw EXCEPT !.warmup = FALSE]
  /\ UNCHANGED <<beside_ptw, ptw_cycle>>

\* the lower level takes the entry i of its RQ and answers it
PtwLowerOperate(i) ==
  /\ i \in 1 .. Len(ptw.ll.RQ)
  /\ ptw' = [ptw EXCEPT
               !.ll.RQ = SubSeq(@, 1, i - 1) \o SubSeq(@, i + 1, Len(@)),
               !.ll.returned = Append(@, Response(ptw.ll.RQ[i].address,
                                                  ptw.ll.RQ[i].v_address, 0, <<>>))]
  /\ UNCHANGED <<beside_ptw, ptw_cycle>>

PtwLowerStep == \E i \in 1 .. PtwCfg.LOWER_SIZE : PtwLowerOperate(i)

\* the walker has something to do
PtwBusy ==
  \/ ptw.MSHR # <<>> \/ ptw.finished # <<>> \/ ptw.completed # <<>>
  \/ ptw.ll.returned # <<>>
  \/ \E u \in Uppers : ptw.ul[u].RQ # <<>>

\* the simulator calls operate in every cycle, and goes on until the walker
\* has finished what it holds, the lower level answering first
PtwRunning ==
  \/ ptw_cycle < PtwMaxCycle
  \/ ptw_cycle < PtwDrainCycle /\ PtwBusy /\ ptw.ll.RQ = <<>>

\* one cycle: the upper levels read their responses, then the walker
\* operates; penalty is what the virtual-memory model charges in this cycle
PtwTick(penalty) ==
  /\ PtwRunning
  /\ ptw' = ptw_operate([ptw EXCEPT
                           !.ul = [u \in Uppers |-> [@[u] EXCEPT !.returned = <<>>]],
                           !.log = EmptyPtwLog],
                        ptw_cycle, penalty)
  /\ ptw_cycle' = ptw_cycle + 1
  /\ UNCHANGED beside_ptw

PtwTickStep == \E penalty \in {0, MinorFault} : PtwTick(penalty)

\* the walker's clock advances
PtwClockStep == PtwRunning /\ ptw_cycle' = ptw_cycle + 1

NextPtw ==
  \/ \E ul \in Uppers, v \in 0 .. 3 : PtwIssue(ul, v)
  \/ PtwEndWarmup
  \/ PtwLowerStep
  \/ PtwTickStep

InitPtw == InitCache(BaseCfg)
SpecPtw ==
  InitPtw /\ [][NextPtw]_vars /\ WF_ptw_cycle(PtwClockStep) /\ WF_ptw(PtwLowerStep)

Walks == 1 .. PtwMaxReq

\* the reads of a walk go down by one level at a time
one_level_per_read(h) ==
  \A k \in 2 .. Len(h.levels) : h.levels[k] = h.levels[k - 1] - 1

\* a walk is delivered once at most, after its level-0 entry has returned
\* and no earlier than lat cycles after that
delivered_after(h, lat) ==
  /\ h.delivered <= 1
  /\ h.delivered = 1 =>
       /\ h.levels # <<>> /\ h.levels[Len(h.levels)] = 0
       /\ h.returned0 >= 0
       /\ h.delivered_at >= h.returned0 + lat

\* every entry that handle_fill has taken in the last cycle was of a level
\* above 0 and is recorded in the PSCL of its level, and its next read has
\* been issued or the entry is still the first of `finished`
fills_recorded ==
  \A k \in 1 .. Len(ptw.log.filled) :
    LET f == ptw.log.filled[k]
        level == f.mshr.translation_level
    IN  /\ level > 0
        /\ f.idx = PtwCfg.NUM_PSCL - level + 1
        /\ \E e \in ptw.pscl[f.idx] :
             /\ pscl_indexer(f.idx, e.vaddr) = pscl_indexer(f.idx, f.mshr.v_address)
             /\ e.level = level - 1
             /\ e.ptw_addr \div PtePerPage = f.mshr.data \div PtePerPage
        /\ \/ \E i \in 1 .. Len(ptw.log.issued) :
                /\ ptw.log.issued[i].walk = walk_of(f.mshr)
                /\ ptw.log.issued[i].level = level - 1
                /\ ptw.log.issued[i].address = f.mshr.data
           \/ /\ ptw.finished # <<>>
              /\ ptw.finished[1].value = f.mshr

\* what the claim says of the walks but for the time of the delivery
walks_in_order ==
  /\ \A i \in 1 .. Len(ptw.ll.RQ) : ptw.ll.RQ[i].type = "TRANSLATION"
  /\ \A n \in Walks : one_level_per_read(ptw.hist[n])
  /\ \A i \in 1 .. Len(ptw.log.delivered) : ptw.log.delivered[i].translation_level = 0
  /\ fills_recorded

\* C36 as stated: the walk of an accepted request reads at strictly
\* decreasing levels, one level per returned entry; a returned entry of a
\* level above 0 is recorded in the PSCL of its level and the next level is
\* issued; the translation is delivered only after the level-0 entry has
\* returned, no earlier than HIT_LATENCY after that return, and exactly
\* once.
C36_AsStated ==
  /\ [](walks_in_order /\ \A n \in Walks : delivered_after(ptw.hist[n], PtwCfg.HIT_LATENCY))
  /\ \A n \in Walks : (ptw.hist[n].levels # <<>>) ~> (ptw.hist[n].delivered = 1)

\* C36: as stated, the delivery being no earlier than HIT_LATENCY after the
\* return of the level-0 entry when that return is outside warm-up, and
\* after no latency of the walker when it is in warm-up.
C36_WalkDelivered ==
  /\ [](/\ walks_in_order
        /\ \A n \in Walks :
             delivered_after(ptw.hist[n],
                             IF ptw.hist[n].warm0 THEN 0 ELSE PtwCfg.HIT_LATENCY))
  /\ \A n \in Walks : (ptw.hist[n].levels # <<>>) ~> (ptw.hist[n].delivered = 1)

\* outside warm-up a walk of three reads has been delivered, and so has a
\* walk that a PSCL hit has started at a lower level
C36_Witness ==
  /\ \E n \in Walks :
       /\ ptw.hist[n].levels = <<2, 1, 0>>
       /\ ptw.hist[n].delivered = 1
       /\ ~ptw.hist[n].warm0
  /\ \E n \in Walks :
       /\ ptw.hist[n].levels # <<>>
       /\ ptw.hist[n].levels[1] < PtwCfg.NUM_PSCL
       /\ ptw.hist[n].delivered = 1

\* C38: the walker never has more than MSHR_SIZE walks outstanding; with
\* MSHR_SIZE walks outstanding the requests of the upper levels stay in
\* their RQ.
C38_MshrBounded == Len(ptw.MSHR) <= PtwCfg.MSHR_SIZE

====
